---- MODULE Spec2Model ----
(***************************************************************************)
(* ip-navigator-cli: one run of the `ipnav` command line.                  *)
(*                                                                         *)
(* A run is one command handler (a commander .action callback) applied to  *)
(* its positional arguments and options.  The handler validates, calls the *)
(* ip-navigator library, writes lines to stdout / stderr and ends the      *)
(* process with an exit code.                                              *)
(*                                                                         *)
(* Representation of texts:                                                *)
(*   - a dotted text ("192.168.1.1") is the sequence of its dot-separated  *)
(*     decimal fields (<<192,168,1,1>>); a field that is not a plain       *)
(*     decimal number is the field -1;                                     *)
(*   - an option value handed to parseInt ("--count 3", "--limit 5x") is   *)
(*     the sequence of its characters (<<"5","x">>);                       *)
(*   - a 32-bit unsigned value is the pair <<hi, lo>> of its 16-bit        *)
(*     halves (TLC's integers are 32 bits wide, signed).                   *)
(***************************************************************************)
EXTENDS Integers, Sequences, FiniteSets, TLC

VARIABLES
    pc,        \* "start" before the handler ran, "done" after the process ended;
               \* at startup "findPackageJson" in the loop, then "returned" or
               \* "threw"
    policy,    \* the library's policy at 255.255.255.255 / 0.0.0.0: "wrap" or "fail"
    cmd,       \* the command that ran
    args,      \* its positional arguments that are dotted texts (for
               \* validate-cidr: the parts of its argument around "/")
    text,      \* its positional argument that is not one (a binary text, a number)
    opts,      \* its options
    stdout,    \* lines written with console.log
    stderr,    \* lines written with console.error
    exitCode,  \* the process exit code
    calls,     \* the library calls made, in order, with their outcome
    threw,     \* a library call threw during the action
    rejected,  \* the handler's own validation rejected an input
    held,      \* the largest number of range addresses held in memory at once
    startDir,    \* the directory findPackageJson was called on
    currentDir,  \* the directory its loop is at
    files,       \* the package.json files that exist
    packagePath  \* the path findPackageJson returned

vars == <<pc, policy, cmd, args, text, opts, stdout, stderr, exitCode, calls,
          threw, rejected, held, startDir, currentDir, files, packagePath>>

---------------------------------------------------------------------------
(* Bounds of the model *)

\* addresses are drawn at offsets 0..MaxOffset from the base addresses
MaxOffset == 2
\* ranges of at most this many addresses are enumerated
MaxRangeLen == 6

---------------------------------------------------------------------------
(* 32-bit unsigned values as <<hi, lo>> halves *)

Half == 256 * 256

U32Zero == <<0, 0>>
U32Max == <<Half - 1, Half - 1>>

\* sign of u - v
U32Cmp(u, v) ==
    IF u[1] < v[1] THEN -1
    ELSE IF u[1] > v[1] THEN 1
    ELSE IF u[2] < v[2] THEN -1
    ELSE IF u[2] > v[2] THEN 1
    ELSE 0

\* (u + k) mod 2^32, for 0 <= k < 65536
U32Add(u, k) ==
    LET lo == u[2] + k
        hi == u[1] + (lo \div Half)
    IN  <<hi % Half, lo % Half>>

\* (u - k) mod 2^32, for 0 <= k < 65536
U32Sub(u, k) ==
    LET lo == u[2] - k
        hi == IF lo < 0 THEN u[1] - 1 ELSE u[1]
    IN  <<(hi + Half) % Half, (lo + Half) % Half>>

---------------------------------------------------------------------------
(* ip-navigator/validation and ip-navigator/conversion *)

Octets == 0..255

\* exactly four dot-separated fields, each a plain decimal number in [0,255]
isValidIPAddress(a) ==
    /\ Len(a) = 4
    /\ \A i \in 1..4 : a[i] \in Octets

ipToInteger(a) == <<a[1] * 256 + a[2], a[3] * 256 + a[4]>>

integerToIP(u) == <<u[1] \div 256, u[1] % 256, u[2] \div 256, u[2] % 256>>

RECURSIVE Pow2(_)
Pow2(k) == IF k = 0 THEN 1 ELSE 2 * Pow2(k - 1)

\* the eight bits of an octet, most significant first
Bits8(o) == [i \in 1..8 |-> (o \div Pow2(8 - i)) % 2]

FromBits8(b) ==
    b[1] * 128 + b[2] * 64 + b[3] * 32 + b[4] * 16 + b[5] * 8 + b[6] * 4
    + b[7] * 2 + b[8]

\* the 32 bits of an address, most significant first
Bits32(a) == Bits8(a[1]) \o Bits8(a[2]) \o Bits8(a[3]) \o Bits8(a[4])

\* a valid address whose bits are a run of ones followed by a run of zeros
isValidSubnetMask(m) ==
    /\ isValidIPAddress(m)
    /\ LET b == Bits32(m)
       IN  \A i \in 1..31 : b[i] = 0 => b[i + 1] = 0

\* "address/prefix": a valid address and a prefix in [0,32].  The text is the
\* sequence of its "/"-separated parts, the prefix part a sequence of one number
isValidCIDR(c) ==
    /\ Len(c) = 2
    /\ isValidIPAddress(c[1])
    /\ Len(c[2]) = 1
    /\ c[2][1] \in 0..32

\* the number of one bits of a valid mask
subnetMaskToCIDR(m) ==
    LET b == Bits32(m) IN Cardinality({i \in 1..32 : b[i] = 1})

\* the mask of `prefix` one bits
cidrToSubnetMask(prefix) ==
    LET ones(i) == IF prefix - 8 * (i - 1) < 0 THEN 0
                   ELSE IF prefix - 8 * (i - 1) > 8 THEN 8
                   ELSE prefix - 8 * (i - 1)
    IN  [i \in 1..4 |-> 256 - Pow2(8 - ones(i))]

cidrToSubnetMaskThrows(prefix) == prefix < 0 \/ prefix > 32

\* bitwise AND, OR and NOT of octets
And8(x, y) == FromBits8([i \in 1..8 |-> Bits8(x)[i] * Bits8(y)[i]])
Or8(x, y) ==
    FromBits8([i \in 1..8 |-> IF Bits8(x)[i] + Bits8(y)[i] > 0 THEN 1 ELSE 0])
Not8(x) == FromBits8([i \in 1..8 |-> 1 - Bits8(x)[i]])

\* ip-navigator/subnet
calculateNetworkAddress(a, m) == [i \in 1..4 |-> And8(a[i], m[i])]

calculateBroadcastAddress(a, m) ==
    [i \in 1..4 |-> Or8(And8(a[i], m[i]), Not8(m[i]))]

\* 2^(32 - prefix) as <<hi, lo>>, hi = 65536 for 2^32
TotalHosts(prefix) ==
    LET e == 32 - prefix
    IN  IF e < 16 THEN <<0, Pow2(e)>> ELSE <<Pow2(e - 16), 0>>

getSubnetInfo(a, m) ==
    LET prefix == subnetMaskToCIDR(m)
        network == calculateNetworkAddress(a, m)
        broadcast == calculateBroadcastAddress(a, m)
        total == TotalHosts(prefix)
    IN  [networkAddress |-> network,
         broadcastAddress |-> broadcast,
         firstUsableHost |->
            IF prefix = 32 THEN a
            ELSE IF prefix = 31 THEN network
            ELSE integerToIP(U32Add(ipToInteger(network), 1)),
         lastUsableHost |->
            IF prefix = 32 THEN a
            ELSE IF prefix = 31 THEN broadcast
            ELSE integerToIP(U32Sub(ipToInteger(broadcast), 1)),
         totalHosts |-> total,
         usableHosts |->
            IF prefix >= 31 THEN total
            ELSE IF total[2] >= 2 THEN <<total[1], total[2] - 2>>
            ELSE <<total[1] - 1, Half - 2>>]

\* address and network lie in the same block under mask
isIPAddressInSubnet(a, network, m) ==
    calculateNetworkAddress(a, m) = calculateNetworkAddress(network, m)

BitChar(b) == IF b = 1 THEN "1" ELSE "0"

BinaryGroup(o) == [i \in 1..8 |-> BitChar(Bits8(o)[i])]

\* "11000000.10101000.00000001.00000001": four groups of eight binary digits
ipToBinary(a) ==
    BinaryGroup(a[1]) \o <<".">> \o BinaryGroup(a[2]) \o <<".">>
    \o BinaryGroup(a[3]) \o <<".">> \o BinaryGroup(a[4])

\* String.prototype.split(sep)
RECURSIVE SplitAcc(_, _, _)
SplitAcc(s, sep, cur) ==
    IF s = <<>> THEN <<cur>>
    ELSE IF Head(s) = sep THEN <<cur>> \o SplitAcc(Tail(s), sep, <<>>)
    ELSE SplitAcc(Tail(s), sep, Append(cur, Head(s)))

Split(s, sep) == SplitAcc(s, sep, <<>>)

IsBinaryGroup(g) == Len(g) = 8 /\ \A i \in 1..8 : g[i] \in {"0", "1"}

GroupValue(g) == FromBits8([i \in 1..8 |-> IF g[i] = "1" THEN 1 ELSE 0])

\* four dot-separated groups of exactly eight binary digits, or it throws
binaryToIPThrows(binary) ==
    LET groups == Split(binary, ".")
    IN  ~(Len(groups) = 4 /\ \A i \in 1..4 : IsBinaryGroup(groups[i]))

binaryToIP(binary) ==
    LET groups == Split(binary, ".") IN [i \in 1..4 |-> GroupValue(groups[i])]

\* numeric comparison of the integer values: -1, 0 or 1
compareIPAddresses(a, b) == U32Cmp(ipToInteger(a), ipToInteger(b))

---------------------------------------------------------------------------
(* ip-navigator/operation *)

\* integer value + 1; at 255.255.255.255 the library either wraps or throws
getNextIPAddressThrows(a) == ipToInteger(a) = U32Max /\ policy = "fail"
getNextIPAddress(a) == integerToIP(U32Add(ipToInteger(a), 1))

\* integer value - 1; at 0.0.0.0 the library applies the same policy
getPreviousIPAddressThrows(a) == ipToInteger(a) = U32Zero /\ policy = "fail"
getPreviousIPAddress(a) == integerToIP(U32Sub(ipToInteger(a), 1))

\* every address from start to end inclusive, in increasing order, as an array
RECURSIVE getIPRange(_, _)
getIPRange(start, end) ==
    IF compareIPAddresses(start, end) > 0 THEN <<>>
    ELSE IF start = end THEN <<start>>
    ELSE <<start>> \o getIPRange(getNextIPAddress(start), end)

getIPRangeThrows(start, end) == compareIPAddresses(start, end) > 0

\* RFC 1918: 10.0.0.0/8, 172.16.0.0/12, 192.168.0.0/16
isPrivateIP(a) ==
    \/ a[1] = 10
    \/ a[1] = 172 /\ a[2] >= 16 /\ a[2] <= 31
    \/ a[1] = 192 /\ a[2] = 168

isPublicIP(a) == ~isPrivateIP(a)

---------------------------------------------------------------------------
(* JavaScript built-ins used by the handlers *)

DigitChars == <<"0", "1", "2", "3", "4", "5", "6", "7", "8", "9">>
IsDigit(c) == \E i \in 1..10 : DigitChars[i] = c
DigitValue(c) == (CHOOSE i \in 1..10 : DigitChars[i] = c) - 1

NaN == [nan |-> TRUE, val |-> 0]
Num(n) == [nan |-> FALSE, val |-> n]

\* the value of the longest run of decimal digits at the front of s
RECURSIVE ParseDigits(_, _)
ParseDigits(s, acc) ==
    IF s = <<>> \/ ~IsDigit(Head(s)) THEN acc
    ELSE ParseDigits(Tail(s), acc * 10 + DigitValue(Head(s)))

RECURSIVE SkipWhite(_)
SkipWhite(s) ==
    IF s # <<>> /\ Head(s) \in {" ", "\t"} THEN SkipWhite(Tail(s)) ELSE s

\* parseInt(s, 10): leading white space, an optional sign, then the longest
\* run of digits; NaN when there is no digit; what follows is ignored
ParseInt(s) ==
    LET t == SkipWhite(s)
        neg == t # <<>> /\ Head(t) = "-"
        u == IF t # <<>> /\ Head(t) \in {"-", "+"} THEN Tail(t) ELSE t
    IN  IF u = <<>> \/ ~IsDigit(Head(u)) THEN NaN
        ELSE Num(IF neg THEN 0 - ParseDigits(u, 0) ELSE ParseDigits(u, 0))

\* parseInt(s, 10) of a text whose value may exceed 31 bits: the value as
\* <<hi, lo>> halves, `over` when it is greater than 4294967295
RECURSIVE ParseDigitsU32(_, _)
ParseDigitsU32(s, acc) ==
    IF s = <<>> \/ ~IsDigit(Head(s)) THEN acc
    ELSE IF acc.over THEN ParseDigitsU32(Tail(s), acc)
    ELSE LET lo == acc.val[2] * 10 + DigitValue(Head(s))
             hi == acc.val[1] * 10 + (lo \div Half)
         IN  ParseDigitsU32(Tail(s),
                            IF hi >= Half THEN [over |-> TRUE, val |-> U32Max]
                            ELSE [over |-> FALSE, val |-> <<hi, lo % Half>>])

ParseIntU32(s) ==
    LET t == SkipWhite(s)
        neg == t # <<>> /\ Head(t) = "-"
        u == IF t # <<>> /\ Head(t) \in {"-", "+"} THEN Tail(t) ELSE t
        d == ParseDigitsU32(u, [over |-> FALSE, val |-> U32Zero])
    IN  IF u = <<>> \/ ~IsDigit(Head(u))
        THEN [nan |-> TRUE, neg |-> FALSE, over |-> FALSE, val |-> U32Zero]
        ELSE [nan |-> FALSE, neg |-> neg, over |-> d.over, val |-> d.val]

\* Number.prototype.toString(): the decimal digits of a 32-bit value
RECURSIVE DecimalDigits(_)
DecimalDigits(u) ==
    LET qhi == u[1] \div 10
        mid == (u[1] % 10) * Half + u[2]
        q == <<qhi, mid \div 10>>
        d == DigitChars[(mid % 10) + 1]
    IN  IF q = U32Zero THEN <<d>> ELSE Append(DecimalDigits(q), d)

HexChars ==
    <<"0", "1", "2", "3", "4", "5", "6", "7", "8", "9", "A", "B", "C", "D", "E", "F">>

\* toString(16).toUpperCase()
RECURSIVE HexDigits(_)
HexDigits(u) ==
    LET q == <<u[1] \div 16, ((u[1] % 16) * Half + u[2]) \div 16>>
        d == HexChars[(u[2] % 16) + 1]
    IN  IF q = U32Zero THEN <<d>> ELSE Append(HexDigits(q), d)

\* binary.replace(/\./g, " ")
DotsToSpaces(s) == [i \in 1..Len(s) |-> IF s[i] = "." THEN " " ELSE s[i]]

IsSpace(c) == c \in {" ", "\t"}

SpacesRemoved(s) == SelectSeq(s, LAMBDA c : ~IsSpace(c))

\* binary.replace(/\s+/g, "."): every run of white space becomes one dot
RECURSIVE SpacesToDots(_)
SpacesToDots(s) ==
    IF s = <<>> THEN <<>>
    ELSE IF IsSpace(Head(s))
    THEN <<".">> \o SpacesToDots(SkipWhite(Tail(s)))
    ELSE <<Head(s)>> \o SpacesToDots(Tail(s))

\* Array.prototype.slice(0, end)
Slice0(seq, end) ==
    LET n == Len(seq)
        e == IF end < 0 THEN (IF n + end < 0 THEN 0 ELSE n + end)
             ELSE IF end > n THEN n ELSE end
    IN  SubSeq(seq, 1, e)

---------------------------------------------------------------------------
(* What a handler leaves behind *)

\* one line of output: a label, the dotted text or the numbers it shows, a
\* number, and the characters of a text it shows
Line(k, v, n) == [k |-> k, v |-> v, n |-> n, t |-> <<>>]
TextLine(k, t) == [k |-> k, v |-> <<>>, n |-> 0, t |-> t]

\* one library call: function, arguments (dotted texts or numbers),
\* "true"/"false"/"ok"/"throw", and the argument that is a text of characters
Call(fn, a, res) == [fn |-> fn, args |-> a, res |-> res, t |-> <<>>]
TextCall(fn, t, res) == [fn |-> fn, args |-> <<>>, res |-> res, t |-> t]

BoolStr(b) == IF b THEN "true" ELSE "false"

\* the process ended with `code` (process.exit(code), or 0 when the handler
\* returns and the event loop drains)
Ended(out, err, code, cs) ==
    [out |-> out, err |-> err, exit |-> code, calls |-> cs,
     threw |-> FALSE, rejected |-> FALSE, held |-> 0]

\* console.error(...); process.exit(1) after a failed validation
Rejected(err, cs) ==
    [out |-> <<>>, err |-> err, exit |-> 1, calls |-> cs,
     threw |-> FALSE, rejected |-> TRUE, held |-> 0]

CaughtWithoutExit(out, err, cs) ==
    [out |-> out, err |-> err, exit |-> 0, calls |-> cs,
     threw |-> TRUE, rejected |-> FALSE, held |-> 0]

\* catch (error) { console.error(...); process.exit(1) }
Caught(out, err, cs) ==
    [out |-> out, err |-> err, exit |-> 1, calls |-> cs,
     threw |-> TRUE, rejected |-> FALSE, held |-> 0]

\* the numbers of several values, side by side on one line
RECURSIVE Flatten(_)
Flatten(vs) == IF vs = <<>> THEN <<>> ELSE Head(vs) \o Flatten(Tail(vs))

PlainLines(ips) == [i \in 1..Len(ips) |-> Line("plain", ips[i], 0)]

Rule == Line("rule", <<>>, 0)
Blank == Line("", <<>>, 0)

---------------------------------------------------------------------------
(* commands/operation: classify, next, previous, range, compare *)

\* --count of next / previous must parse to a number in [1, MaxCount]
MaxCount == 100

CountOutOfRange(count) == count.nan \/ count.val < 1 \/ count.val > MaxCount

PrivateRangeLinesBelow31(address) ==
    IF address[1] = 10 THEN <<Line("Range", <<10, 0, 0, 0>>, 0)>>
    ELSE IF address[1] = 172 /\ address[2] >= 16 /\ address[2] < 31
         THEN <<Line("Range", <<172, 16, 0, 0>>, 0)>>
    ELSE IF address[1] = 192 /\ address[2] = 168
         THEN <<Line("Range", <<192, 168, 0, 0>>, 0)>>
    ELSE <<>>

\* the 'Range:' line of the private block whose octets match
PrivateRangeLines(address) ==
    IF address[1] = 10 THEN <<Line("Range", <<10, 0, 0, 0>>, 0)>>
    ELSE IF address[1] = 172 /\ address[2] >= 16 /\ address[2] <= 31
         THEN <<Line("Range", <<172, 16, 0, 0>>, 0)>>
    ELSE IF address[1] = 192 /\ address[2] = 168
         THEN <<Line("Range", <<192, 168, 0, 0>>, 0)>>
    ELSE <<>>

classifyAction(address, options) ==
    LET valid == isValidIPAddress(address)
        c0 == <<Call("isValidIPAddress", <<address>>, BoolStr(valid))>>
    IN  IF ~valid THEN Rejected(<<Line("Invalid IP address", address, 0)>>, c0)
        ELSE
        LET isPublic == isPublicIP(address)
            c1 == Append(c0, Call("isPublicIP", <<address>>, BoolStr(isPublic)))
        IN  IF options.plain
            THEN Ended(<<Line(IF isPublic THEN "public" ELSE "private", <<>>, 0)>>,
                       <<>>, 0, c1)
            ELSE
            LET isPrivate == isPrivateIP(address)
                c2 == Append(c1, Call("isPrivateIP", <<address>>, BoolStr(isPrivate)))
            IN  Ended(<<Line("IP Classification", <<>>, 0), Rule,
                        Line("IP Address", address, 0),
                        Line(IF isPublic THEN "Type: Public IP" ELSE "Type: Private IP",
                             <<>>, 0)>>
                      \o (IF isPrivate
                          THEN <<Line("Standard: RFC 1918", <<>>, 0)>>
                               \o PrivateRangeLines(address)
                          ELSE <<>>)
                      \o <<Rule>>,
                      <<>>, 0, c2)

nextLoopContinuesOneMore(i, count) == i <= count

\* for (let i = 0; i < count; i++)
nextLoopContinues(i, count) == i < count

\* one pass of the loop body: current = getNextIPAddress(current);
\* results.push(current)
nextStep(st) ==
    LET nx == getNextIPAddress(st.current)
    IN  [current |-> nx, i |-> st.i + 1, results |-> Append(st.results, nx),
         calls |-> Append(st.calls, Call("getNextIPAddress", <<st.current>>, "ok")),
         threw |-> FALSE]

RECURSIVE nextLoop(_, _)
nextLoop(st, count) ==
    IF ~nextLoopContinues(st.i, count) THEN st
    ELSE IF getNextIPAddressThrows(st.current)
    THEN [st EXCEPT !.threw = TRUE,
                    !.calls = Append(@, Call("getNextIPAddress", <<st.current>>,
                                             "throw"))]
    ELSE \* the body runs, then the loop goes on from the state it left
         CHOOSE r \in {nextLoop(s2, count) : s2 \in {nextStep(st)}} : TRUE

nextAction(address, options) ==
    LET valid == isValidIPAddress(address)
        c0 == <<Call("isValidIPAddress", <<address>>, BoolStr(valid))>>
        count == ParseInt(options.count)
    IN  IF ~valid THEN Rejected(<<Line("Invalid IP address", address, 0)>>, c0)
        ELSE IF CountOutOfRange(count)
        THEN Rejected(<<Line("Count must be between 1 and 100", <<>>, 0)>>, c0)
        ELSE
        LET loop == nextLoop([current |-> address, i |-> 0, results |-> <<>>,
                              calls |-> c0, threw |-> FALSE], count.val)
            results == loop.results
        IN  IF loop.threw
            THEN Caught(<<>>, <<Line("Error getting next IP", <<>>, 0)>>, loop.calls)
            ELSE IF options.plain
            THEN Ended(PlainLines(results), <<>>, 0, loop.calls)
            ELSE Ended(<<Line("Current", address, 0)>>
                       \o [i \in 1..Len(results) |-> Line("Next", results[i], i)],
                       <<>>, 0, loop.calls)

previousLoopContinuesOneLess(i) == i > 1

\* for (let i = count; i > 0; i--)
previousLoopContinues(i) == i > 0

\* one pass of the loop body: current = getPreviousIPAddress(current);
\* results.push(current)
previousStep(st) ==
    LET pv == getPreviousIPAddress(st.current)
    IN  [current |-> pv, i |-> st.i - 1, results |-> Append(st.results, pv),
         calls |-> Append(st.calls,
                          Call("getPreviousIPAddress", <<st.current>>, "ok")),
         threw |-> FALSE]

RECURSIVE previousLoop(_)
previousLoop(st) ==
    IF ~previousLoopContinues(st.i) THEN st
    ELSE IF getPreviousIPAddressThrows(st.current)
    THEN [st EXCEPT !.threw = TRUE,
                    !.calls = Append(@, Call("getPreviousIPAddress",
                                             <<st.current>>, "throw"))]
    ELSE \* the body runs, then the loop goes on from the state it left
         CHOOSE r \in {previousLoop(s2) : s2 \in {previousStep(st)}} : TRUE

previousLabelFromOne(count, i) == i + 1

\* results.forEach((ip, i) => `Prev ${count - i}: ${ip}`), i counted from 0
previousLabel(count, i) == count - i

previousAction(address, options) ==
    LET valid == isValidIPAddress(address)
        c0 == <<Call("isValidIPAddress", <<address>>, BoolStr(valid))>>
        count == ParseInt(options.count)
    IN  IF ~valid THEN Rejected(<<Line("Invalid IP address", address, 0)>>, c0)
        ELSE IF CountOutOfRange(count)
        THEN Rejected(<<Line("Count must be between 1 and 100", <<>>, 0)>>, c0)
        ELSE
        LET loop == previousLoop([current |-> address, i |-> count.val, results |-> <<>>,
                                  calls |-> c0, threw |-> FALSE])
            results == loop.results
        IN  IF loop.threw
            THEN Caught(<<>>, <<Line("Error getting previous IP", <<>>, 0)>>,
                        loop.calls)
            ELSE IF options.plain
            THEN Ended(PlainLines(results), <<>>, 0, loop.calls)
            ELSE Ended([i \in 1..Len(results) |->
                           Line("Prev", results[i], previousLabel(count.val, i - 1))]
                       \o <<Line("Current", address, 0)>>,
                       <<>>, 0, loop.calls)

RangeStartAfterEndNever(comparison) == comparison > 1

\* if (comparison > 0): the start address lies after the end address
RangeStartAfterEnd(comparison) == comparison > 0

\* range.length > limit, which is false when limit is NaN
LengthExceeds(n, limit) == ~limit.nan /\ n > limit.val

rangeCountOffByOne(range) == Len(range) - 1

\* range.length, as the --count mode prints it
rangeCount(range) == Len(range)

ItemLines(ips) == [i \in 1..Len(ips) |-> Line("item", ips[i], i)]

rangeAction(start, end, options) ==
    LET validStart == isValidIPAddress(start)
        c0 == <<Call("isValidIPAddress", <<start>>, BoolStr(validStart))>>
        validEnd == isValidIPAddress(end)
        c1 == Append(c0, Call("isValidIPAddress", <<end>>, BoolStr(validEnd)))
    IN  IF ~validStart
        THEN Rejected(<<Line("Invalid start IP address", start, 0)>>, c0)
        ELSE IF ~validEnd
        THEN Rejected(<<Line("Invalid end IP address", end, 0)>>, c1)
        ELSE
        LET comparison == compareIPAddresses(start, end)
            c2 == Append(c1, Call("compareIPAddresses", <<start, end>>, "ok"))
        IN  IF RangeStartAfterEnd(comparison)
            THEN Rejected(<<Line("Start IP must be less than or equal to end IP",
                                 start, 0)>>, c2)
            ELSE IF getIPRangeThrows(start, end)
            THEN Caught(<<>>, <<Line("Error generating IP range", <<>>, 0)>>,
                        Append(c2, Call("getIPRange", <<start, end>>, "throw")))
            ELSE
            LET range == getIPRange(start, end)
                c3 == Append(c2, Call("getIPRange", <<start, end>>, "ok"))
                limit == ParseInt(options.limit)
                n == Len(range)
                out ==
                    IF options.plain THEN PlainLines(range)
                    ELSE IF options.countFlag
                    THEN <<Line("IP Range Information", <<>>, 0), Rule,
                           Line("Start", start, 0), Line("End", end, 0),
                           Line("Count", <<>>, rangeCount(range)), Rule>>
                    ELSE IF LengthExceeds(n, limit)
                    THEN <<Line("Range contains", <<n>>, limit.val)>>
                         \o ItemLines(Slice0(range, limit.val))
                         \o <<Line("more addresses", <<>>, n - limit.val),
                              Line("Tip", <<>>, 0)>>
                    ELSE <<Line("IP Range", <<>>, n)>> \o ItemLines(range)
            IN  [Ended(out, <<>>, 0, c3) EXCEPT !.held = n]

compareActionOperandsSwapped(ip1, ip2, options) ==
    LET valid1 == isValidIPAddress(ip1)
        c0 == <<Call("isValidIPAddress", <<ip1>>, BoolStr(valid1))>>
        valid2 == isValidIPAddress(ip2)
        c1 == Append(c0, Call("isValidIPAddress", <<ip2>>, BoolStr(valid2)))
    IN  IF ~valid1 THEN Rejected(<<Line("Invalid IP address", ip1, 0)>>, c0)
        ELSE IF ~valid2 THEN Rejected(<<Line("Invalid IP address", ip2, 0)>>, c1)
        ELSE
        LET result == compareIPAddresses(ip2, ip1)
            c2 == Append(c1, Call("compareIPAddresses", <<ip1, ip2>>, "ok"))
        IN  IF options.plain
            THEN Ended(<<Line("plain", <<>>, result)>>, <<>>, 0, c2)
            ELSE Ended(<<Line("IP Comparison", <<>>, 0), Rule,
                         Line("IP 1", ip1, 0), Line("IP 2", ip2, 0),
                         Line(IF result < 0 THEN "Result: <"
                              ELSE IF result > 0 THEN "Result: >"
                              ELSE "Result: =", <<>>, 0),
                         Rule>>,
                       <<>>, 0, c2)

compareAction(ip1, ip2, options) ==
    LET valid1 == isValidIPAddress(ip1)
        c0 == <<Call("isValidIPAddress", <<ip1>>, BoolStr(valid1))>>
        valid2 == isValidIPAddress(ip2)
        c1 == Append(c0, Call("isValidIPAddress", <<ip2>>, BoolStr(valid2)))
    IN  IF ~valid1 THEN Rejected(<<Line("Invalid IP address", ip1, 0)>>, c0)
        ELSE IF ~valid2 THEN Rejected(<<Line("Invalid IP address", ip2, 0)>>, c1)
        ELSE
        LET result == compareIPAddresses(ip1, ip2)
            c2 == Append(c1, Call("compareIPAddresses", <<ip1, ip2>>, "ok"))
        IN  IF options.plain
            THEN Ended(<<Line("plain", <<>>, result)>>, <<>>, 0, c2)
            ELSE Ended(<<Line("IP Comparison", <<>>, 0), Rule,
                         Line("IP 1", ip1, 0), Line("IP 2", ip2, 0),
                         Line(IF result < 0 THEN "Result: <"
                              ELSE IF result > 0 THEN "Result: >"
                              ELSE "Result: =", <<>>, 0),
                         Rule>>,
                       <<>>, 0, c2)

---------------------------------------------------------------------------
(* The earlier version of commands/operation: the same five commands
   without --plain.  next and previous print inside the loop. *)

classifyActionEarlier(address) ==
    LET valid == isValidIPAddress(address)
        c0 == <<Call("isValidIPAddress", <<address>>, BoolStr(valid))>>
    IN  IF ~valid THEN Rejected(<<Line("Invalid IP address", address, 0)>>, c0)
        ELSE
        LET isPublic == isPublicIP(address)
            c1 == Append(c0, Call("isPublicIP", <<address>>, BoolStr(isPublic)))
            isPrivate == isPrivateIP(address)
            c2 == Append(c1, Call("isPrivateIP", <<address>>, BoolStr(isPrivate)))
        IN  Ended(<<Line("IP Classification", <<>>, 0), Rule,
                    Line("IP Address", address, 0),
                    Line(IF isPublic THEN "Type: Public IP" ELSE "Type: Private IP",
                         <<>>, 0)>>
                  \o (IF isPrivate
                      THEN <<Line("Standard: RFC 1918", <<>>, 0)>>
                           \o PrivateRangeLines(address)
                      ELSE <<>>)
                  \o <<Rule>>,
                  <<>>, 0, c2)

\* one pass of the loop body: current = getNextIPAddress(current);
\* console.log(`Next ${i + 1}:  ${current}`)
nextStepEarlier(st) ==
    LET nx == getNextIPAddress(st.current)
    IN  [current |-> nx, i |-> st.i + 1,
         out |-> Append(st.out, Line("Next", nx, st.i + 1)),
         calls |-> Append(st.calls, Call("getNextIPAddress", <<st.current>>, "ok")),
         threw |-> FALSE]

RECURSIVE nextLoopEarlier(_, _)
nextLoopEarlier(st, count) ==
    IF ~(st.i < count) THEN st
    ELSE IF getNextIPAddressThrows(st.current)
    THEN [st EXCEPT !.threw = TRUE,
                    !.calls = Append(@, Call("getNextIPAddress", <<st.current>>,
                                             "throw"))]
    ELSE CHOOSE r \in {nextLoopEarlier(s2, count) : s2 \in {nextStepEarlier(st)}} :
             TRUE

nextActionEarlier(address, options) ==
    LET valid == isValidIPAddress(address)
        c0 == <<Call("isValidIPAddress", <<address>>, BoolStr(valid))>>
        count == ParseInt(options.count)
    IN  IF ~valid THEN Rejected(<<Line("Invalid IP address", address, 0)>>, c0)
        ELSE IF CountOutOfRange(count)
        THEN Rejected(<<Line("Count must be between 1 and 100", <<>>, 0)>>, c0)
        ELSE
        \* 'Current:' is on stdout before the first step
        LET loop == nextLoopEarlier([current |-> address, i |-> 0,
                                     out |-> <<Line("Current", address, 0)>>,
                                     calls |-> c0, threw |-> FALSE], count.val)
        IN  IF loop.threw
            THEN Caught(loop.out, <<Line("Error getting next IP", <<>>, 0)>>,
                        loop.calls)
            ELSE Ended(loop.out, <<>>, 0, loop.calls)

\* one pass of the loop body: current = getPreviousIPAddress(current);
\* console.log(`Prev ${i}: ${current}`)
previousStepEarlier(st) ==
    LET pv == getPreviousIPAddress(st.current)
    IN  [current |-> pv, i |-> st.i - 1,
         out |-> Append(st.out, Line("Prev", pv, st.i)),
         calls |-> Append(st.calls,
                          Call("getPreviousIPAddress", <<st.current>>, "ok")),
         threw |-> FALSE]

RECURSIVE previousLoopEarlier(_)
previousLoopEarlier(st) ==
    IF ~(st.i > 0) THEN st
    ELSE IF getPreviousIPAddressThrows(st.current)
    THEN [st EXCEPT !.threw = TRUE,
                    !.calls = Append(@, Call("getPreviousIPAddress",
                                             <<st.current>>, "throw"))]
    ELSE CHOOSE r \in {previousLoopEarlier(s2) : s2 \in {previousStepEarlier(st)}} :
             TRUE

previousActionEarlier(address, options) ==
    LET valid == isValidIPAddress(address)
        c0 == <<Call("isValidIPAddress", <<address>>, BoolStr(valid))>>
        count == ParseInt(options.count)
    IN  IF ~valid THEN Rejected(<<Line("Invalid IP address", address, 0)>>, c0)
        ELSE IF CountOutOfRange(count)
        THEN Rejected(<<Line("Count must be between 1 and 100", <<>>, 0)>>, c0)
        ELSE
        LET loop == previousLoopEarlier([current |-> address, i |-> count.val,
                                         out |-> <<>>, calls |-> c0,
                                         threw |-> FALSE])
        IN  IF loop.threw
            THEN Caught(loop.out, <<Line("Error getting previous IP", <<>>, 0)>>,
                        loop.calls)
            \* 'Current:' follows the last step
            ELSE Ended(Append(loop.out, Line("Current", address, 0)),
                       <<>>, 0, loop.calls)

rangeActionEarlier(start, end, options) ==
    LET validStart == isValidIPAddress(start)
        c0 == <<Call("isValidIPAddress", <<start>>, BoolStr(validStart))>>
        validEnd == isValidIPAddress(end)
        c1 == Append(c0, Call("isValidIPAddress", <<end>>, BoolStr(validEnd)))
    IN  IF ~validStart
        THEN Rejected(<<Line("Invalid start IP address", start, 0)>>, c0)
        ELSE IF ~validEnd
        THEN Rejected(<<Line("Invalid end IP address", end, 0)>>, c1)
        ELSE
        LET comparison == compareIPAddresses(start, end)
            c2 == Append(c1, Call("compareIPAddresses", <<start, end>>, "ok"))
        IN  IF comparison > 0
            THEN Rejected(<<Line("Start IP must be less than or equal to end IP",
                                 start, 0)>>, c2)
            ELSE IF getIPRangeThrows(start, end)
            THEN Caught(<<>>, <<Line("Error generating IP range", <<>>, 0)>>,
                        Append(c2, Call("getIPRange", <<start, end>>, "throw")))
            ELSE
            LET range == getIPRange(start, end)
                c3 == Append(c2, Call("getIPRange", <<start, end>>, "ok"))
                limit == ParseInt(options.limit)
                n == Len(range)
                out ==
                    IF options.countFlag
                    THEN <<Line("IP Range Information", <<>>, 0), Rule,
                           Line("Start", start, 0), Line("End", end, 0),
                           Line("Count", <<>>, n), Rule>>
                    ELSE IF ~limit.nan /\ n > limit.val
                    THEN <<Line("Range contains", <<n>>, limit.val)>>
                         \o ItemLines(Slice0(range, limit.val))
                         \o <<Line("more addresses", <<>>, n - limit.val),
                              Line("Tip", <<>>, 0)>>
                    ELSE <<Line("IP Range", <<>>, n)>> \o ItemLines(range)
            IN  [Ended(out, <<>>, 0, c3) EXCEPT !.held = n]

compareActionEarlier(ip1, ip2) ==
    LET valid1 == isValidIPAddress(ip1)
        c0 == <<Call("isValidIPAddress", <<ip1>>, BoolStr(valid1))>>
        valid2 == isValidIPAddress(ip2)
        c1 == Append(c0, Call("isValidIPAddress", <<ip2>>, BoolStr(valid2)))
    IN  IF ~valid1 THEN Rejected(<<Line("Invalid IP address", ip1, 0)>>, c0)
        ELSE IF ~valid2 THEN Rejected(<<Line("Invalid IP address", ip2, 0)>>, c1)
        ELSE
        LET result == compareIPAddresses(ip1, ip2)
            c2 == Append(c1, Call("compareIPAddresses", <<ip1, ip2>>, "ok"))
        IN  Ended(<<Line("IP Comparison", <<>>, 0), Rule,
                    Line("IP 1", ip1, 0), Line("IP 2", ip2, 0),
                    Line(IF result < 0 THEN "Result: <"
                         ELSE IF result > 0 THEN "Result: >"
                         ELSE "Result: =", <<>>, 0),
                    Rule>>,
                  <<>>, 0, c2)

---------------------------------------------------------------------------
(* commands/validation: validate-ip, validate-mask, validate-cidr,
   validate-batch *)

ResultExitCodeSwapped(result) == IF result THEN 1 ELSE 0

\* process.exit(isValid ? 0 : 1)
ResultExitCode(result) == IF result THEN 0 ELSE 1

\* the shape shared by validate-ip, validate-mask and validate-cidr
validateOutcome(fn, a, shown, isValid, options, okLabel, badLabel) ==
    LET c0 == <<Call(fn, a, BoolStr(isValid))>>
    IN  IF options.plain
        THEN Ended(<<Line(IF isValid THEN "valid" ELSE "invalid", <<>>, 0)>>,
                   <<>>, ResultExitCode(isValid), c0)
        ELSE IF isValid
        THEN Ended(<<Line(okLabel, shown, 0)>>, <<>>, 0, c0)
        ELSE Ended(<<>>, <<Line(badLabel, shown, 0),
                           Line("Expected format", <<>>, 0)>>, 1, c0)

validateIpAction(address, options) ==
    validateOutcome("isValidIPAddress", <<address>>, address,
                    isValidIPAddress(address), options,
                    "Valid IP address", "Invalid IP address")

validateMaskActionAsAddress(mask, options) ==
    validateOutcome("isValidSubnetMask", <<mask>>, mask,
                    isValidIPAddress(mask), options,
                    "Valid subnet mask", "Invalid subnet mask")

validateMaskAction(mask, options) ==
    validateOutcome("isValidSubnetMask", <<mask>>, mask,
                    isValidSubnetMask(mask), options,
                    "Valid subnet mask", "Invalid subnet mask")

validateCidrAction(cidr, options) ==
    validateOutcome("isValidCIDR", cidr, Flatten(cidr), isValidCIDR(cidr), options,
                    "Valid CIDR notation", "Invalid CIDR notation")

validateBatchActionAnyValid(addresses, options) ==
    LET results == [i \in 1..Len(addresses) |->
                       [address |-> addresses[i],
                        isValid |-> isValidIPAddress(addresses[i])]]
        cs == [i \in 1..Len(addresses) |->
                  Call("isValidIPAddress", <<addresses[i]>>,
                       BoolStr(results[i].isValid))]
        validCount == Cardinality({i \in 1..Len(results) : results[i].isValid})
        invalidCount == Len(results) - validCount
        code == IF validCount > 0 THEN 0 ELSE 1
        valids == SelectSeq(results, LAMBDA r : r.isValid)
        invalids == SelectSeq(results, LAMBDA r : ~r.isValid)
        summary == Line("Summary", <<validCount, invalidCount, Len(results)>>, 0)
    IN  IF options.plain
        THEN Ended([i \in 1..Len(valids) |-> Line("plain", valids[i].address, 0)],
                   <<>>, code, cs)
        ELSE IF ~options.quiet
        THEN Ended([i \in 1..Len(results) |->
                       Line(IF results[i].isValid THEN "ok" ELSE "bad",
                            results[i].address, 0)]
                   \o <<Blank, summary>>, <<>>, code, cs)
        ELSE Ended([i \in 1..Len(invalids) |-> Line("bad", invalids[i].address, 0)]
                   \o <<summary>>, <<>>, code, cs)

validateBatchAction(addresses, options) ==
    LET results == [i \in 1..Len(addresses) |->
                       [address |-> addresses[i],
                        isValid |-> isValidIPAddress(addresses[i])]]
        cs == [i \in 1..Len(addresses) |->
                  Call("isValidIPAddress", <<addresses[i]>>,
                       BoolStr(results[i].isValid))]
        validCount == Cardinality({i \in 1..Len(results) : results[i].isValid})
        invalidCount == Len(results) - validCount
        code == IF invalidCount > 0 THEN 1 ELSE 0
        valids == SelectSeq(results, LAMBDA r : r.isValid)
        invalids == SelectSeq(results, LAMBDA r : ~r.isValid)
        summary == Line("Summary", <<validCount, invalidCount, Len(results)>>, 0)
    IN  IF options.plain
        THEN Ended([i \in 1..Len(valids) |-> Line("plain", valids[i].address, 0)],
                   <<>>, code, cs)
        ELSE IF ~options.quiet
        THEN Ended([i \in 1..Len(results) |->
                       Line(IF results[i].isValid THEN "ok" ELSE "bad",
                            results[i].address, 0)]
                   \o <<Blank, summary>>, <<>>, code, cs)
        ELSE Ended([i \in 1..Len(invalids) |-> Line("bad", invalids[i].address, 0)]
                   \o <<summary>>, <<>>, code, cs)

---------------------------------------------------------------------------
(* commands/subnet: subnet-info, network-address, broadcast-address,
   in-subnet *)

\* isNaN(cidr) || cidr < 0 || cidr > 32
CidrOutOfRangeFrom32(cidr) == cidr.nan \/ cidr.val < 0 \/ cidr.val >= 32

\* isNaN(cidr) || cidr < 0 || cidr > 32
CidrOutOfRange(cidr) == cidr.nan \/ cidr.val < 0 \/ cidr.val > 32

subnetInfoLinesHostsSwapped(address, subnetMask, info, options) ==
    IF options.plain
    THEN <<Line("plain",
                Flatten(<<info.networkAddress, info.broadcastAddress,
                          info.lastUsableHost, info.firstUsableHost,
                          info.totalHosts, info.usableHosts>>), 0)>>
    ELSE <<Line("Subnet Information", <<>>, 0), Rule,
           Line("IP Address", address, 0),
           Line("Subnet Mask", subnetMask, 0),
           Line("Network Address", info.networkAddress, 0),
           Line("Broadcast Address", info.broadcastAddress, 0),
           Line("First Usable", info.lastUsableHost, 0),
           Line("Last Usable", info.firstUsableHost, 0),
           Line("Total Hosts", info.totalHosts, 0),
           Line("Usable Hosts", info.usableHosts, 0), Rule>>

\* console.log of the six values, tab-separated or one labelled line each
subnetInfoLines(address, subnetMask, info, options) ==
    IF options.plain
    THEN <<Line("plain",
                Flatten(<<info.networkAddress, info.broadcastAddress,
                          info.firstUsableHost, info.lastUsableHost,
                          info.totalHosts, info.usableHosts>>), 0)>>
    ELSE <<Line("Subnet Information", <<>>, 0), Rule,
           Line("IP Address", address, 0),
           Line("Subnet Mask", subnetMask, 0),
           Line("Network Address", info.networkAddress, 0),
           Line("Broadcast Address", info.broadcastAddress, 0),
           Line("First Usable", info.firstUsableHost, 0),
           Line("Last Usable", info.lastUsableHost, 0),
           Line("Total Hosts", info.totalHosts, 0),
           Line("Usable Hosts", info.usableHosts, 0), Rule>>

\* an absent positional mask and an absent --cidr are the empty text, which
\* the handler's truthiness tests treat like ""
subnetInfoAction(address, mask, options) ==
    LET valid == isValidIPAddress(address)
        c0 == <<Call("isValidIPAddress", <<address>>, BoolStr(valid))>>
    IN  IF ~valid THEN Rejected(<<Line("Invalid IP address", address, 0)>>, c0)
        ELSE IF options.cidr # <<>>
        THEN LET cidr == ParseInt(options.cidr)
             IN  IF CidrOutOfRange(cidr)
                 THEN Rejected(<<TextLine("Invalid CIDR prefix", options.cidr)>>, c0)
                 ELSE IF cidrToSubnetMaskThrows(cidr.val)
                 THEN Caught(<<>>, <<Line("Error calculating subnet info", <<>>, 0)>>,
                             Append(c0, Call("cidrToSubnetMask", <<<<cidr.val>>>>,
                                             "throw")))
                 ELSE
                 LET subnetMask == cidrToSubnetMask(cidr.val)
                     c1 == Append(c0, Call("cidrToSubnetMask", <<<<cidr.val>>>>, "ok"))
                     info == getSubnetInfo(address, subnetMask)
                     c2 == Append(c1, Call("getSubnetInfo", <<address, subnetMask>>,
                                           "ok"))
                 IN  Ended(subnetInfoLines(address, subnetMask, info, options),
                           <<>>, 0, c2)
        ELSE IF mask # <<>>
        THEN LET validMask == isValidSubnetMask(mask)
                 c1 == Append(c0, Call("isValidSubnetMask", <<mask>>,
                                       BoolStr(validMask)))
             IN  IF ~validMask
                 THEN Rejected(<<Line("Invalid subnet mask", mask, 0)>>, c1)
                 ELSE
                 LET info == getSubnetInfo(address, mask)
                     c2 == Append(c1, Call("getSubnetInfo", <<address, mask>>, "ok"))
                 IN  Ended(subnetInfoLines(address, mask, info, options), <<>>, 0, c2)
        ELSE Rejected(<<Line("Please provide either a subnet mask or use --cidr flag",
                             <<>>, 0)>>, c0)

addressAndMaskOutcomeMaskFirst(fn, label, address, mask, result, options) ==
    LET valid == isValidIPAddress(address)
        validMask == isValidSubnetMask(mask)
        c0 == <<Call("isValidSubnetMask", <<mask>>, BoolStr(validMask))>>
        c1 == Append(c0, Call("isValidIPAddress", <<address>>, BoolStr(valid)))
    IN  IF ~validMask THEN Rejected(<<Line("Invalid subnet mask", mask, 0)>>, c0)
        ELSE IF ~valid THEN Rejected(<<Line("Invalid IP address", address, 0)>>, c1)
        ELSE Ended(<<Line(IF options.plain THEN "plain" ELSE label, result, 0)>>,
                   <<>>, 0, Append(c1, Call(fn, <<address, mask>>, "ok")))

\* the shape shared by network-address and broadcast-address
addressAndMaskOutcome(fn, label, address, mask, result, options) ==
    LET valid == isValidIPAddress(address)
        c0 == <<Call("isValidIPAddress", <<address>>, BoolStr(valid))>>
        validMask == isValidSubnetMask(mask)
        c1 == Append(c0, Call("isValidSubnetMask", <<mask>>, BoolStr(validMask)))
    IN  IF ~valid THEN Rejected(<<Line("Invalid IP address", address, 0)>>, c0)
        ELSE IF ~validMask THEN Rejected(<<Line("Invalid subnet mask", mask, 0)>>, c1)
        ELSE Ended(<<Line(IF options.plain THEN "plain" ELSE label, result, 0)>>,
                   <<>>, 0, Append(c1, Call(fn, <<address, mask>>, "ok")))

networkAddressAction(address, mask, options) ==
    addressAndMaskOutcome("calculateNetworkAddress", "Network Address", address, mask,
                          calculateNetworkAddress(address, mask), options)

broadcastAddressActionArgsSwapped(address, mask, options) ==
    addressAndMaskOutcome("calculateBroadcastAddress", "Broadcast Address", address,
                          mask, calculateBroadcastAddress(mask, address), options)

broadcastAddressAction(address, mask, options) ==
    addressAndMaskOutcome("calculateBroadcastAddress", "Broadcast Address", address,
                          mask, calculateBroadcastAddress(address, mask), options)

inSubnetActionMaskAsNetwork(address, network, mask, options) ==
    LET valid == isValidIPAddress(address)
        c0 == <<Call("isValidIPAddress", <<address>>, BoolStr(valid))>>
        validNetwork == isValidIPAddress(network)
        c1 == Append(c0, Call("isValidIPAddress", <<network>>, BoolStr(validNetwork)))
        validMask == isValidSubnetMask(mask)
        c2 == Append(c1, Call("isValidSubnetMask", <<mask>>, BoolStr(validMask)))
    IN  IF ~valid THEN Rejected(<<Line("Invalid IP address", address, 0)>>, c0)
        ELSE IF ~validNetwork
        THEN Rejected(<<Line("Invalid network address", network, 0)>>, c1)
        ELSE IF ~validMask THEN Rejected(<<Line("Invalid subnet mask", mask, 0)>>, c2)
        ELSE
        LET isInSubnet == isIPAddressInSubnet(address, mask, network)
            c3 == Append(c2, Call("isIPAddressInSubnet", <<address, network, mask>>,
                                  BoolStr(isInSubnet)))
        IN  IF options.plain
            THEN Ended(<<Line(IF isInSubnet THEN "true" ELSE "false", <<>>, 0)>>,
                       <<>>, ResultExitCode(isInSubnet), c3)
            ELSE IF isInSubnet
            THEN Ended(<<Line("belongs to subnet", address, 0)>>, <<>>, 0, c3)
            ELSE Ended(<<Line("does NOT belong to subnet", address, 0)>>, <<>>, 1, c3)

inSubnetAction(address, network, mask, options) ==
    LET valid == isValidIPAddress(address)
        c0 == <<Call("isValidIPAddress", <<address>>, BoolStr(valid))>>
        validNetwork == isValidIPAddress(network)
        c1 == Append(c0, Call("isValidIPAddress", <<network>>, BoolStr(validNetwork)))
        validMask == isValidSubnetMask(mask)
        c2 == Append(c1, Call("isValidSubnetMask", <<mask>>, BoolStr(validMask)))
    IN  IF ~valid THEN Rejected(<<Line("Invalid IP address", address, 0)>>, c0)
        ELSE IF ~validNetwork
        THEN Rejected(<<Line("Invalid network address", network, 0)>>, c1)
        ELSE IF ~validMask THEN Rejected(<<Line("Invalid subnet mask", mask, 0)>>, c2)
        ELSE
        LET isInSubnet == isIPAddressInSubnet(address, network, mask)
            c3 == Append(c2, Call("isIPAddressInSubnet", <<address, network, mask>>,
                                  BoolStr(isInSubnet)))
        IN  IF options.plain
            THEN Ended(<<Line(IF isInSubnet THEN "true" ELSE "false", <<>>, 0)>>,
                       <<>>, ResultExitCode(isInSubnet), c3)
            ELSE IF isInSubnet
            THEN Ended(<<Line("belongs to subnet", address, 0)>>, <<>>, 0, c3)
            ELSE Ended(<<Line("does NOT belong to subnet", address, 0)>>, <<>>, 1, c3)

---------------------------------------------------------------------------
(* commands/conversion: to-binary, from-binary, to-integer, from-integer,
   cidr-to-mask, mask-to-cidr, convert *)

toBinaryAction(address, options) ==
    LET valid == isValidIPAddress(address)
        c0 == <<Call("isValidIPAddress", <<address>>, BoolStr(valid))>>
    IN  IF ~valid THEN Rejected(<<Line("Invalid IP address", address, 0)>>, c0)
        ELSE
        LET binary == ipToBinary(address)
            c1 == Append(c0, Call("ipToBinary", <<address>>, "ok"))
            formatted == IF options.spaces THEN DotsToSpaces(binary) ELSE binary
        IN  IF options.plain
            THEN Ended(<<TextLine("plain", formatted)>>, <<>>, 0, c1)
            ELSE Ended(<<Line("IP Address", address, 0),
                         TextLine("Binary", formatted)>>, <<>>, 0, c1)

fromBinaryAction(binary, options) ==
    LET normalizedBinary == SpacesToDots(binary)
    IN  IF binaryToIPThrows(normalizedBinary)
        THEN Caught(<<>>, <<Line("Error converting from binary", <<>>, 0),
                            Line("Expected format", <<>>, 0)>>,
                    <<TextCall("binaryToIP", normalizedBinary, "throw")>>)
        ELSE
        LET ip == binaryToIP(normalizedBinary)
            c0 == <<TextCall("binaryToIP", normalizedBinary, "ok")>>
        IN  IF options.plain
            THEN Ended(<<Line("plain", ip, 0)>>, <<>>, 0, c0)
            ELSE Ended(<<TextLine("Binary", normalizedBinary),
                         Line("IP Address", ip, 0)>>, <<>>, 0, c0)

\* `0x${integer.toString(16).toUpperCase()}`
HexText(integer) == <<"0", "x">> \o HexDigits(integer)

toIntegerAction(address, options) ==
    LET valid == isValidIPAddress(address)
        c0 == <<Call("isValidIPAddress", <<address>>, BoolStr(valid))>>
    IN  IF ~valid THEN Rejected(<<Line("Invalid IP address", address, 0)>>, c0)
        ELSE
        LET integer == ipToInteger(address)
            c1 == Append(c0, Call("ipToInteger", <<address>>, "ok"))
        IN  IF options.plain
            THEN Ended(<<TextLine("plain",
                                  IF options.hex THEN HexText(integer)
                                  ELSE DecimalDigits(integer))>>, <<>>, 0, c1)
            ELSE Ended(<<Line("IP Address", address, 0),
                         TextLine("Integer", DecimalDigits(integer))>>
                       \o (IF options.hex
                           THEN <<TextLine("Hexadecimal", HexText(integer))>>
                           ELSE <<>>),
                       <<>>, 0, c1)

\* isNaN(integer) || integer < 0 || integer > 4294967295
IntegerOutOfRange(integer) ==
    integer.nan \/ (integer.neg /\ integer.val # U32Zero) \/ integer.over

fromIntegerAction(number, options) ==
    LET integer == ParseIntU32(number)
    IN  IF IntegerOutOfRange(integer)
        THEN Rejected(<<TextLine("Invalid integer", number),
                        Line("Expected range", <<>>, 0)>>, <<>>)
        ELSE
        LET ip == integerToIP(integer.val)
            c0 == <<Call("integerToIP", <<integer.val>>, "ok")>>
        IN  IF options.plain
            THEN Ended(<<Line("plain", ip, 0)>>, <<>>, 0, c0)
            ELSE Ended(<<TextLine("Integer", DecimalDigits(integer.val)),
                         Line("IP Address", ip, 0)>>, <<>>, 0, c0)

cidrToMaskAction(prefix, options) ==
    LET prefixNum == ParseInt(prefix)
    IN  IF CidrOutOfRange(prefixNum)
        THEN Rejected(<<TextLine("Invalid CIDR prefix", prefix),
                        Line("Expected range", <<>>, 0)>>, <<>>)
        ELSE IF cidrToSubnetMaskThrows(prefixNum.val)
        THEN Caught(<<>>, <<Line("Error converting CIDR to mask", <<>>, 0)>>,
                    <<Call("cidrToSubnetMask", <<<<prefixNum.val>>>>, "throw")>>)
        ELSE
        LET mask == cidrToSubnetMask(prefixNum.val)
            c0 == <<Call("cidrToSubnetMask", <<<<prefixNum.val>>>>, "ok")>>
        IN  IF options.plain
            THEN Ended(<<Line("plain", mask, 0)>>, <<>>, 0, c0)
            ELSE Ended(<<Line("CIDR Prefix", <<>>, prefixNum.val),
                         Line("Subnet Mask", mask, 0),
                         TextLine("Binary", ipToBinary(mask))>>,
                       <<>>, 0, Append(c0, Call("ipToBinary", <<mask>>, "ok")))

maskToCidrAction(mask, options) ==
    LET validMask == isValidSubnetMask(mask)
        c0 == <<Call("isValidSubnetMask", <<mask>>, BoolStr(validMask))>>
    IN  IF ~validMask THEN Rejected(<<Line("Invalid subnet mask", mask, 0)>>, c0)
        ELSE
        LET cidr == subnetMaskToCIDR(mask)
            c1 == Append(c0, Call("subnetMaskToCIDR", <<mask>>, "ok"))
        IN  IF options.plain
            THEN Ended(<<Line("plain", <<>>, cidr)>>, <<>>, 0, c1)
            ELSE Ended(<<Line("Subnet Mask", mask, 0),
                         Line("CIDR Prefix", <<>>, cidr),
                         TextLine("Binary", ipToBinary(mask))>>,
                       <<>>, 0, Append(c1, Call("ipToBinary", <<mask>>, "ok")))

convertAction(address, options) ==
    LET valid == isValidIPAddress(address)
        c0 == <<Call("isValidIPAddress", <<address>>, BoolStr(valid))>>
    IN  IF ~valid THEN Rejected(<<Line("Invalid IP address", address, 0)>>, c0)
        ELSE
        LET binary == ipToBinary(address)
            integer == ipToInteger(address)
            hex == HexText(integer)
            c2 == c0 \o <<Call("ipToBinary", <<address>>, "ok"),
                          Call("ipToInteger", <<address>>, "ok")>>
        IN  IF options.plain
            THEN Ended(<<[Line("plain", address, 0) EXCEPT
                             !.t = binary \o <<"\t">> \o DecimalDigits(integer)
                                   \o <<"\t">> \o hex]>>,
                       <<>>, 0, c2)
            ELSE Ended(<<Line("IP Address Representations", <<>>, 0), Rule,
                         Line("Decimal", address, 0), TextLine("Binary", binary),
                         TextLine("Integer", DecimalDigits(integer)),
                         TextLine("Hexadecimal", hex), Rule>>,
                       <<>>, 0, c2)

---------------------------------------------------------------------------
(* The inputs of a run *)

BaseAddrs ==
    { <<0, 0, 0, 0>>, <<0, 0, 0, 254>>, <<9, 255, 255, 254>>,
      <<255, 255, 255, 253>> }

\* well-formed addresses: at the bottom and the top of the address space,
\* across an octet carry, and one of each class
ValidAddrs ==
    { integerToIP(U32Add(ipToInteger(b), k)) : b \in BaseAddrs, k \in 0..MaxOffset }

ClassAddrs ==
    { <<8, 8, 8, 8>>, <<10, 1, 2, 3>>, <<172, 16, 0, 1>>, <<172, 31, 255, 255>>,
      <<172, 32, 0, 0>>, <<192, 168, 1, 100>>, <<192, 169, 0, 1>>,
      <<172, 15, 255, 255>>, <<192, 167, 255, 255>>, <<11, 0, 0, 0>> }

\* malformed addresses: an octet out of range, a field that is no number,
\* too few and too many fields
InvalidAddrs ==
    { <<256, 0, 0, 1>>, <<1, 2, 3>>, <<1, 2, 3, 4, 5>>, <<-1, 0, 0, 0>> }

Addrs == ValidAddrs \cup InvalidAddrs

\* --count values of next / previous ("1" is the default)
CountTexts ==
    { <<"1">>, <<"2">>, <<"3">>, <<"2", "0">>, <<"0">>, <<"1", "0", "1">>,
      <<"-", "1">>, <<"a", "b", "c">>, <<"2", "x">> }

\* --limit values of range ("100" is the default)
LimitTexts ==
    { <<"1", "0", "0">>, <<"2">>, <<"0">>, <<"-", "1">>, <<"a", "b", "c">> }

\* well-formed masks, and dotted texts that are no mask
Masks ==
    { <<255, 255, 255, 0>>, <<255, 255, 255, 254>>, <<255, 255, 255, 255>>,
      <<0, 0, 0, 0>>, <<255, 240, 0, 0>>, <<255, 0, 255, 0>>, <<0, 255, 0, 0>>,
      <<255, 255, 256, 0>>, <<255, 255, 255>> }

\* address/prefix texts
CidrTexts ==
    { <<a, p>> : a \in {<<192, 168, 1, 0>>, <<256, 0, 0, 1>>, <<1, 2, 3>>},
                 p \in {<<24>>, <<0>>, <<32>>, <<33>>, <<-1>>, <<>>} }
    \cup { <<<<192, 168, 1, 0>>>>, <<<<10, 0, 0, 0>>, <<8>>, <<8>>>> }

\* prefix texts of cidr-to-mask and subnet-info --cidr
PrefixTexts ==
    { <<"0">>, <<"8">>, <<"2", "4">>, <<"3", "1">>, <<"3", "2">>, <<"3", "3">>,
      <<"-", "1">>, <<"a">>, <<"2", "4", "x">>, <<"1", ".", "5">> }

\* prefix texts of cidr-to-mask: those, and the decimal text of every prefix
EveryPrefixText == PrefixTexts \cup { DecimalDigits(<<0, n>>) : n \in 0..33 }

\* well-formed texts that are no mask: a one bit after the zeros, and a zero
\* bit before the ones
GappedMasks ==
    { [cidrToSubnetMask(n) EXCEPT ![4] = @ + 1] : n \in 0..30 }
    \cup { [cidrToSubnetMask(n) EXCEPT ![1] = @ - 128] : n \in 2..32 }

\* masks of mask-to-cidr and validate-mask: those, the mask of every prefix
\* length, and the gapped ones
EveryMask == Masks \cup { cidrToSubnetMask(n) : n \in 0..32 } \cup GappedMasks

\* integer texts of from-integer
IntegerTexts ==
    { <<"0">>, <<"1">>, <<"3", "2", "3", "2", "2", "3", "5", "7", "7", "7">>,
      <<"4", "2", "9", "4", "9", "6", "7", "2", "9", "5">>,
      <<"4", "2", "9", "4", "9", "6", "7", "2", "9", "6">>,
      <<"-", "1">>, <<"-", "0">>, <<"a", "b", "c">>, <<"1", "2", "a", "b">>,
      <<"1", ".", "5">>, <<>> }

\* binary texts of from-binary: what to-binary prints, with dots or spaces,
\* and malformed ones
BinaryTexts ==
    { ipToBinary(a) : a \in {<<192, 168, 1, 1>>, <<0, 0, 0, 0>>, <<255, 255, 255, 255>>} }
    \cup { DotsToSpaces(ipToBinary(<<192, 168, 1, 1>>)),
           <<" ">> \o ipToBinary(<<10, 0, 0, 1>>),
           SubSeq(ipToBinary(<<10, 0, 0, 1>>), 1, 26),
           Tail(ipToBinary(<<10, 0, 0, 1>>)),
           <<"2">> \o Tail(ipToBinary(<<10, 0, 0, 1>>)),
           <<>> }

\* at most this many addresses are given to validate-batch
MaxBatch == 3

BatchAddrs == { <<0, 0, 0, 1>>, <<10, 1, 2, 3>>, <<256, 0, 0, 1>>, <<1, 2, 3>> }

Batches == UNION { [1..n -> BatchAddrs] : n \in 1..MaxBatch }

NoOptions ==
    [plain |-> FALSE, count |-> <<"1">>, countFlag |-> FALSE,
     limit |-> <<"1", "0", "0">>, quiet |-> FALSE, spaces |-> FALSE,
     hex |-> FALSE, cidr |-> <<>>]

\* end is one of the first MaxRangeLen addresses from start on
Within(start, end) ==
    \E k \in 0..(MaxRangeLen - 1) :
        U32Add(ipToInteger(start), k) = ipToInteger(end)

---------------------------------------------------------------------------
(* The run *)

Init ==
    /\ pc = "start"
    /\ policy \in {"wrap", "fail"}
    /\ cmd = ""
    /\ args = <<>>
    /\ text = <<>>
    /\ opts = NoOptions
    /\ stdout = <<>>
    /\ stderr = <<>>
    /\ exitCode = 0
    /\ calls = <<>>
    /\ threw = FALSE
    /\ rejected = FALSE
    /\ held = 0
    \* startup found the package.json next to the compiled sources
    /\ startDir = <<"app", "dist">>
    /\ currentDir = <<"app">>
    /\ files = {<<"app", "package.json">>}
    /\ packagePath = <<"app", "package.json">>

\* the process ran `command` on `a` and `t` with `o` and ended as `r` says
RunText(command, a, t, o, r) ==
    /\ pc = "start"
    /\ pc' = "done"
    /\ cmd' = command
    /\ args' = a
    /\ text' = t
    /\ opts' = o
    /\ stdout' = r.out
    /\ stderr' = r.err
    /\ exitCode' = r.exit
    /\ calls' = r.calls
    /\ threw' = r.threw
    /\ rejected' = r.rejected
    /\ held' = r.held
    /\ UNCHANGED <<policy, startDir, currentDir, files, packagePath>>

Run(command, a, o, r) == RunText(command, a, <<>>, o, r)

Classify ==
    /\ pc = "start"
    /\ \E address \in Addrs \cup ClassAddrs, plain \in BOOLEAN :
        LET o == [NoOptions EXCEPT !.plain = plain]
        IN  Run("classify", <<address>>, o, classifyAction(address, o))

NextCmd ==
    /\ pc = "start"
    /\ \E address \in Addrs, count \in CountTexts, plain \in BOOLEAN :
        LET o == [NoOptions EXCEPT !.plain = plain, !.count = count]
        IN  Run("next", <<address>>, o, nextAction(address, o))

PreviousCmd ==
    /\ pc = "start"
    /\ \E address \in Addrs, count \in CountTexts, plain \in BOOLEAN :
        LET o == [NoOptions EXCEPT !.plain = plain, !.count = count]
        IN  Run("previous", <<address>>, o, previousAction(address, o))

RangeCmd ==
    /\ pc = "start"
    /\ \E start \in Addrs, end \in Addrs, plain \in BOOLEAN, countFlag \in BOOLEAN,
       limit \in LimitTexts :
        /\ (isValidIPAddress(start) /\ isValidIPAddress(end)
              /\ compareIPAddresses(start, end) <= 0) => Within(start, end)
        /\ LET o == [NoOptions EXCEPT !.plain = plain, !.countFlag = countFlag,
                                      !.limit = limit]
           IN  Run("range", <<start, end>>, o, rangeAction(start, end, o))

Compare ==
    /\ pc = "start"
    /\ \E ip1 \in Addrs, ip2 \in Addrs, plain \in BOOLEAN :
        LET o == [NoOptions EXCEPT !.plain = plain]
        IN  Run("compare", <<ip1, ip2>>, o, compareAction(ip1, ip2, o))

ValidateIp ==
    /\ pc = "start"
    /\ \E address \in Addrs, plain \in BOOLEAN :
        LET o == [NoOptions EXCEPT !.plain = plain]
        IN  Run("validate-ip", <<address>>, o, validateIpAction(address, o))

ValidateMask ==
    /\ pc = "start"
    /\ \E mask \in EveryMask, plain \in BOOLEAN :
        LET o == [NoOptions EXCEPT !.plain = plain]
        IN  Run("validate-mask", <<mask>>, o, validateMaskAction(mask, o))

ValidateCidr ==
    /\ pc = "start"
    /\ \E cidr \in CidrTexts, plain \in BOOLEAN :
        LET o == [NoOptions EXCEPT !.plain = plain]
        IN  Run("validate-cidr", cidr, o, validateCidrAction(cidr, o))

ValidateBatch ==
    /\ pc = "start"
    /\ \E addresses \in Batches, plain \in BOOLEAN, quiet \in BOOLEAN :
        LET o == [NoOptions EXCEPT !.plain = plain, !.quiet = quiet]
        IN  Run("validate-batch", addresses, o, validateBatchAction(addresses, o))

SubnetInfo ==
    /\ pc = "start"
    /\ \E address \in Addrs, mask \in Masks \cup {<<>>},
          cidr \in PrefixTexts \cup {<<>>}, plain \in BOOLEAN :
        LET o == [NoOptions EXCEPT !.plain = plain, !.cidr = cidr]
        IN  Run("subnet-info", <<address, mask>>, o,
                subnetInfoAction(address, mask, o))

NetworkAddress ==
    /\ pc = "start"
    /\ \E address \in Addrs, mask \in Masks, plain \in BOOLEAN :
        LET o == [NoOptions EXCEPT !.plain = plain]
        IN  Run("network-address", <<address, mask>>, o,
                networkAddressAction(address, mask, o))

BroadcastAddress ==
    /\ pc = "start"
    /\ \E address \in Addrs, mask \in Masks, plain \in BOOLEAN :
        LET o == [NoOptions EXCEPT !.plain = plain]
        IN  Run("broadcast-address", <<address, mask>>, o,
                broadcastAddressAction(address, mask, o))

InSubnet ==
    /\ pc = "start"
    /\ \E address \in Addrs, network \in Addrs, mask \in Masks, plain \in BOOLEAN :
        LET o == [NoOptions EXCEPT !.plain = plain]
        IN  Run("in-subnet", <<address, network, mask>>, o,
                inSubnetAction(address, network, mask, o))

ToBinary ==
    /\ pc = "start"
    /\ \E address \in Addrs, plain \in BOOLEAN, spaces \in BOOLEAN :
        LET o == [NoOptions EXCEPT !.plain = plain, !.spaces = spaces]
        IN  Run("to-binary", <<address>>, o, toBinaryAction(address, o))

FromBinary ==
    /\ pc = "start"
    /\ \E binary \in BinaryTexts, plain \in BOOLEAN :
        LET o == [NoOptions EXCEPT !.plain = plain]
        IN  RunText("from-binary", <<>>, binary, o, fromBinaryAction(binary, o))

ToInteger ==
    /\ pc = "start"
    /\ \E address \in Addrs, plain \in BOOLEAN, hex \in BOOLEAN :
        LET o == [NoOptions EXCEPT !.plain = plain, !.hex = hex]
        IN  Run("to-integer", <<address>>, o, toIntegerAction(address, o))

FromInteger ==
    /\ pc = "start"
    /\ \E number \in IntegerTexts, plain \in BOOLEAN :
        LET o == [NoOptions EXCEPT !.plain = plain]
        IN  RunText("from-integer", <<>>, number, o, fromIntegerAction(number, o))

CidrToMask ==
    /\ pc = "start"
    /\ \E prefix \in EveryPrefixText, plain \in BOOLEAN :
        LET o == [NoOptions EXCEPT !.plain = plain]
        IN  RunText("cidr-to-mask", <<>>, prefix, o, cidrToMaskAction(prefix, o))

MaskToCidr ==
    /\ pc = "start"
    /\ \E mask \in EveryMask, plain \in BOOLEAN :
        LET o == [NoOptions EXCEPT !.plain = plain]
        IN  Run("mask-to-cidr", <<mask>>, o, maskToCidrAction(mask, o))

Convert ==
    /\ pc = "start"
    /\ \E address \in Addrs, plain \in BOOLEAN :
        LET o == [NoOptions EXCEPT !.plain = plain]
        IN  Run("convert", <<address>>, o, convertAction(address, o))

Next ==
    \/ ValidateIp
    \/ ValidateMask
    \/ ValidateCidr
    \/ ValidateBatch
    \/ ToBinary
    \/ FromBinary
    \/ ToInteger
    \/ FromInteger
    \/ CidrToMask
    \/ MaskToCidr
    \/ Convert
    \/ SubnetInfo
    \/ NetworkAddress
    \/ BroadcastAddress
    \/ InSubnet
    \/ Classify
    \/ NextCmd
    \/ PreviousCmd
    \/ RangeCmd
    \/ Compare

Spec == Init /\ [][Next]_vars

---------------------------------------------------------------------------
(* Startup: findPackageJson(__dirname).  An absolute path is the sequence of
   its components, the filesystem root the empty sequence. *)

\* directories lie at most MaxDepth components below the root
MaxDepth == 3

DirNames == {"app", "dist"}

Dirs == UNION {[1..n -> DirNames] : n \in 0..MaxDepth}

\* path.dirname: the parent directory, the root being its own
dirname(dir) == IF dir = <<>> THEN <<>> ELSE SubSeq(dir, 1, Len(dir) - 1)

\* path.join(dir, "package.json")
join(dir, name) == Append(dir, name)

\* fs.existsSync
existsSync(path) == path \in files

\* dir itself and every directory above it, the root included
UpFrom(dir) == {SubSeq(dir, 1, n) : n \in 0..Len(dir)}

\* where a package.json may lie: on the way up from dir, or beside it
PackageJsonPlaces(dir) ==
    {join(d, "package.json") : d \in UpFrom(dir) \cup {<<"dist">>}}

InitStartup ==
    /\ pc = "findPackageJson"
    /\ policy = "wrap"
    /\ cmd = ""
    /\ args = <<>>
    /\ text = <<>>
    /\ opts = NoOptions
    /\ stdout = <<>>
    /\ stderr = <<>>
    /\ exitCode = 0
    /\ calls = <<>>
    /\ threw = FALSE
    /\ rejected = FALSE
    /\ held = 0
    /\ startDir \in Dirs
    /\ currentDir = startDir
    /\ files \in SUBSET PackageJsonPlaces(startDir)
    /\ packagePath = <<>>

\* one pass of while (currentDir !== dirname(currentDir))
FindStep ==
    /\ pc = "findPackageJson"
    /\ currentDir # dirname(currentDir)
    /\ LET path == join(currentDir, "package.json")
       IN  IF existsSync(path)
           THEN /\ packagePath' = path
                /\ pc' = "returned"
                /\ UNCHANGED currentDir
           ELSE /\ currentDir' = dirname(currentDir)
                /\ UNCHANGED <<pc, packagePath>>
    /\ UNCHANGED <<policy, cmd, args, text, opts, stdout, stderr, exitCode, calls,
                   threw, rejected, held, startDir, files>>

\* the loop ended: throw new Error("package.json not found")
FindThrow ==
    /\ pc = "findPackageJson"
    /\ currentDir = dirname(currentDir)
    /\ pc' = "threw"
    /\ UNCHANGED <<policy, cmd, args, text, opts, stdout, stderr, exitCode, calls,
                   threw, rejected, held, startDir, currentDir, files, packagePath>>

NextStartup == FindStep \/ FindThrow

\* the loop is sequential code: a pass that can run does run
SpecStartup == InitStartup /\ [][NextStartup]_vars /\ WF_vars(NextStartup)

---------------------------------------------------------------------------
(* Properties of a finished run *)

Done == pc = "done"

\* the commands whose exit code is their result
BooleanCommands ==
    {"validate-ip", "validate-mask", "validate-cidr", "validate-batch", "in-subnet"}

\* the predicate a boolean command reports
PredicateOf(command) ==
    IF command = "validate-ip" THEN "isValidIPAddress"
    ELSE IF command = "validate-mask" THEN "isValidSubnetMask"
    ELSE IF command = "validate-cidr" THEN "isValidCIDR"
    ELSE "isIPAddressInSubnet"

PredicateReturned(res) ==
    \E i \in 1..Len(calls) : calls[i].fn = PredicateOf(cmd) /\ calls[i].res = res

CoreCallThrew == \E i \in 1..Len(calls) : calls[i].res = "throw"

Called(fn) == \E i \in 1..Len(calls) : calls[i].fn = fn

\* C1: for validate-ip, validate-mask, validate-cidr and in-subnet, plain or
\* formatted, the exit code is 0 exactly when the core predicate returned
\* true and 1 when it returned false; in plain mode stdout then holds exactly
\* one line, 'valid'/'invalid' ('true'/'false' for in-subnet), that agrees
\* with the exit code.
C1_ExitCodeIsPredicate ==
    (Done /\ cmd \in {"validate-ip", "validate-mask", "validate-cidr", "in-subnet"})
    =>
    /\ exitCode = 0 <=> PredicateReturned("true")
    /\ PredicateReturned("false") => exitCode = 1
    /\ (opts.plain /\ (PredicateReturned("true") \/ PredicateReturned("false")))
       => /\ Len(stdout) = 1
          /\ stdout[1].k =
                IF cmd = "in-subnet"
                THEN (IF exitCode = 0 THEN "true" ELSE "false")
                ELSE (IF exitCode = 0 THEN "valid" ELSE "invalid")

C1_Witness ==
    /\ Done /\ cmd = "in-subnet" /\ opts.plain
    /\ PredicateReturned("false") /\ exitCode = 1
    /\ stdout = <<Line("false", <<>>, 0)>>

\* C2: when a core library call throws during the action the process ends
\* with exit code 1 and an error message on stderr; when every input is
\* accepted and no call throws, a command whose exit code is not its result
\* ends with exit code 0.
C2_ThrowExitsOneElseZero ==
    Done =>
    /\ CoreCallThrew => (exitCode = 1 /\ stderr # <<>>)
    /\ (~CoreCallThrew /\ ~rejected /\ cmd \notin BooleanCommands) => exitCode = 0

C2_Witness ==
    /\ Done /\ cmd = "from-binary" /\ CoreCallThrew
    /\ exitCode = 1 /\ Len(stderr) = 2 /\ stdout = <<>>

\* the core computations that take an address or a mask
CoreComputations ==
    {"getSubnetInfo", "calculateNetworkAddress", "calculateBroadcastAddress",
     "isIPAddressInSubnet", "ipToBinary", "ipToInteger", "subnetMaskToCIDR",
     "getNextIPAddress", "getPreviousIPAddress", "getIPRange",
     "compareIPAddresses", "isPublicIP", "isPrivateIP"}

\* the commands with an address or mask argument
AddressCommands ==
    {"validate-ip", "validate-mask", "validate-batch", "to-binary", "to-integer",
     "mask-to-cidr", "convert", "subnet-info", "network-address",
     "broadcast-address", "in-subnet", "classify", "next", "previous", "range",
     "compare"}

\* those of them whose output is the validity itself
ValidityCommands == {"validate-ip", "validate-mask", "validate-batch"}

\* the positional arguments that are masks
IsMaskArg(i) ==
    \/ cmd \in {"validate-mask", "mask-to-cidr"}
    \/ cmd \in {"subnet-info", "network-address", "broadcast-address"} /\ i = 2
    \/ cmd = "in-subnet" /\ i = 3

\* the positional arguments the handler reads: subnet-info ignores its mask
\* when --cidr is given, and takes an absent mask for no argument
IsReadArg(i) ==
    ~(cmd = "subnet-info" /\ i = 2 /\ (opts.cidr # <<>> \/ args[i] = <<>>))

InvalidArgs ==
    {i \in 1..Len(args) :
        /\ IsReadArg(i)
        /\ IF IsMaskArg(i) THEN ~isValidSubnetMask(args[i])
                           ELSE ~isValidIPAddress(args[i])}

FirstInvalidArg == CHOOSE i \in InvalidArgs : \A j \in InvalidArgs : i <= j

InvalidMessages ==
    {"Invalid IP address", "Invalid start IP address", "Invalid end IP address",
     "Invalid network address", "Invalid subnet mask"}

\* a validator returned false for the text
ReturnedFalse(a) ==
    \E i \in 1..Len(calls) :
        /\ calls[i].fn \in {"isValidIPAddress", "isValidSubnetMask"}
        /\ calls[i].res = "false"
        /\ calls[i].args = <<a>>

NoCoreCallOnInvalid ==
    \A i \in 1..Len(calls) :
        calls[i].fn \in CoreComputations
        => \A j \in 1..Len(calls[i].args) : ~ReturnedFalse(calls[i].args[j])

\* the 'Invalid ...' messages on stderr (a format hint may follow one)
InvalidLines == SelectSeq(stderr, LAMBDA l : l.k \in InvalidMessages)

OneInvalidMessage ==
    /\ exitCode = 1
    /\ stdout = <<>>
    /\ Len(InvalidLines) = 1
    /\ InvalidLines[1].v = args[FirstInvalidArg]

C4_RangeRejectsStartAfterEnd ==
    (/\ Done /\ cmd = "range"
     /\ isValidIPAddress(args[1]) /\ isValidIPAddress(args[2])
     /\ compareIPAddresses(args[1], args[2]) > 0)
    => (exitCode = 1 /\ stdout = <<>> /\ ~Called("getIPRange"))

C4_Witness ==
    /\ Done /\ cmd = "range"
    /\ args = << <<0, 0, 1, 0>>, <<0, 0, 0, 255>> >>
    /\ exitCode = 1 /\ stdout = <<>> /\ Len(stderr) = 1

\* the lines of stdout that show one address of a result
AddressLines(out) ==
    SelectSeq(out, LAMBDA l : l.k \in {"plain", "item", "Next", "Prev"})

\* the address k above a, modulo 2^32
AddrAt(a, k) == integerToIP(U32Add(ipToInteger(a), k))

\* the address k below a, modulo 2^32
AddrBelow(a, k) == integerToIP(U32Sub(ipToInteger(a), k))

\* the range command got past its checks and getIPRange returned
RangeRan == Done /\ cmd = "range" /\ Called("getIPRange") /\ ~CoreCallThrew

CountLines(out) == SelectSeq(out, LAMBDA l : l.k = "Count")

\* the listing of the range command was cut at --limit
ListingTruncated ==
    RangeRan /\ ~opts.plain /\ ~opts.countFlag /\ stdout[1].k = "Range contains"

C6_RangeIsLazy ==
    (ListingTruncated /\ ParseInt(opts.limit).val >= 0)
    => held <= ParseInt(opts.limit).val

\* C7: for valid start <= end and --limit L, at most L address lines are
\* written to stdout, in every output mode.
C7_LimitBoundsOutput ==
    (RangeRan /\ ~ParseInt(opts.limit).nan /\ ParseInt(opts.limit).val >= 0)
    => Len(AddressLines(stdout)) <= ParseInt(opts.limit).val

\* C8: with --count, with or without --plain or --limit, no address line is
\* written to stdout and the count toInteger(end) - toInteger(start) + 1 is.
C8_CountShowsOnlyCount ==
    (RangeRan /\ opts.countFlag) =>
    /\ AddressLines(stdout) = <<>>
    /\ Len(CountLines(stdout)) = 1
    /\ AddrAt(args[1], CountLines(stdout)[1].n - 1) = args[2]

\* the next / previous command got past its checks with count N
StepsRan(command) ==
    /\ Done /\ cmd = command
    /\ isValidIPAddress(args[1])
    /\ ~CountOutOfRange(ParseInt(opts.count))

StepCount == ParseInt(opts.count).val

\* toInteger(a) + N <= 4294967295
StaysBelowTop(a, n) == U32Cmp(U32Add(ipToInteger(a), n), ipToInteger(a)) > 0

\* toInteger(a) - N >= 0
StaysAboveBottom(a, n) == U32Cmp(U32Sub(ipToInteger(a), n), ipToInteger(a)) < 0

\* C9: the next command with count N in [1,100] at an address a with
\* toInteger(a) + N <= 4294967295 outputs exactly N addresses, the k-th of
\* integer value toInteger(a) + k, each greater than the one before (the
\* first greater than a).
C9_NextAddsOne ==
    (StepsRan("next") /\ StaysBelowTop(args[1], StepCount)) =>
    LET r == AddressLines(stdout)
    IN  /\ exitCode = 0
        /\ Len(r) = StepCount
        /\ \A k \in 1..Len(r) :
              /\ r[k].v = AddrAt(args[1], k)
              /\ compareIPAddresses(IF k = 1 THEN args[1] ELSE r[k - 1].v, r[k].v) < 0
              /\ ~opts.plain => r[k].n = k

C9_Witness ==
    /\ StepsRan("next") /\ ~opts.plain /\ StepCount = 3
    /\ args = << <<9, 255, 255, 254>> >>
    /\ AddressLines(stdout) =
          << Line("Next", <<9, 255, 255, 255>>, 1), Line("Next", <<10, 0, 0, 0>>, 2),
             Line("Next", <<10, 0, 0, 1>>, 3) >>
    /\ exitCode = 0

\* the run steps over 255.255.255.255 (next) or 0.0.0.0 (previous)
ReachesBoundary ==
    \/ StepsRan("next") /\ ~StaysBelowTop(args[1], StepCount)
    \/ StepsRan("previous") /\ ~StaysAboveBottom(args[1], StepCount)

---------------------------------------------------------------------------
(* subnet-info, network-address, broadcast-address, in-subnet *)

\* subnet-info got past its checks and printed what getSubnetInfo returned
SubnetInfoRan ==
    Done /\ cmd = "subnet-info" /\ Called("getSubnetInfo") /\ exitCode = 0

\* the value of the line of `out` labelled k
ValueIn(out, k) == out[CHOOSE i \in 1..Len(out) : out[i].k = k].v

\* the six values subnet-info printed, read back from its output
InfoIn(out) ==
    IF out[1].k = "plain"
    THEN LET v == out[1].v
         IN  [network |-> SubSeq(v, 1, 4), broadcast |-> SubSeq(v, 5, 8),
              first |-> SubSeq(v, 9, 12), last |-> SubSeq(v, 13, 16),
              total |-> SubSeq(v, 17, 18), usable |-> SubSeq(v, 19, 20)]
    ELSE [network |-> ValueIn(out, "Network Address"),
          broadcast |-> ValueIn(out, "Broadcast Address"),
          first |-> ValueIn(out, "First Usable"),
          last |-> ValueIn(out, "Last Usable"),
          total |-> ValueIn(out, "Total Hosts"),
          usable |-> ValueIn(out, "Usable Hosts")]

InfoShown == InfoIn(stdout)

\* the mask getSubnetInfo was given
MaskUsed == calls[Len(calls)].args[2]

\* the number of one bits of a mask
PrefixLength(m) == LET b == Bits32(m) IN Cardinality({i \in 1..32 : b[i] = 1})

\* toInteger(hi) - toInteger(lo) + 1 for lo <= hi, as <<hi, lo>> halves (the
\* high half is 65536 for 2^32)
SpanOf(lo, hi) ==
    LET u == ipToInteger(hi)
        v == ipToInteger(lo)
        d == IF u[2] >= v[2] THEN <<u[1] - v[1], u[2] - v[2]>>
             ELSE <<u[1] - v[1] - 1, u[2] + Half - v[2]>>
    IN  IF d[2] + 1 = Half THEN <<d[1] + 1, 0>> ELSE <<d[1], d[2] + 1>>

\* n - 2 for a number n >= 2 given as halves
MinusTwo(n) == IF n[2] >= 2 THEN <<n[1], n[2] - 2>> ELSE <<n[1] - 1, Half - 2>>

\* 2^e as halves, for e in 0..32
PowerOfTwo(e) == IF e < 16 THEN <<0, Pow2(e)>> ELSE <<Pow2(e - 16), 0>>

\* C11: for a valid address a and a mask of prefix length p, subnet-info
\* shows totalHosts = 2^(32-p); for p = 32 one usable host, first = last = a;
\* for p = 31 two usable hosts, first = network, last = broadcast; for
\* p <= 30 usable = total - 2, first = network + 1, last = broadcast - 1; in
\* every case network <= first <= last <= broadcast and usable =
\* toInteger(last) - toInteger(first) + 1.
C11_SubnetInfoHosts ==
    SubnetInfoRan =>
    LET i == InfoShown
        a == args[1]
        prefix == PrefixLength(MaskUsed)
    IN  /\ i.total = PowerOfTwo(32 - prefix)
        /\ prefix = 32 => (i.usable = <<0, 1>> /\ i.first = a /\ i.last = a)
        /\ prefix = 31 => /\ i.usable = <<0, 2>>
                          /\ i.first = i.network
                          /\ i.last = i.broadcast
        /\ prefix <= 30 => /\ i.usable = MinusTwo(i.total)
                           /\ i.first = AddrAt(i.network, 1)
                           /\ i.last = AddrBelow(i.broadcast, 1)
        /\ compareIPAddresses(i.network, i.first) <= 0
        /\ compareIPAddresses(i.first, i.last) <= 0
        /\ compareIPAddresses(i.last, i.broadcast) <= 0
        /\ i.usable = SpanOf(i.first, i.last)

C11_Witness ==
    /\ SubnetInfoRan /\ opts.plain /\ opts.cidr = <<"0">>
    /\ args[1] = <<9, 255, 255, 254>>
    /\ InfoShown.first = <<0, 0, 0, 1>>
    /\ InfoShown.last = <<255, 255, 255, 254>>
    /\ InfoShown.total = <<Half, 0>>
    /\ InfoShown.usable = <<Half - 1, Half - 2>>

\* network-address, broadcast-address or subnet-info printed its result
BlockRan ==
    /\ Done /\ exitCode = 0
    /\ \/ cmd = "network-address" /\ Called("calculateNetworkAddress")
       \/ cmd = "broadcast-address" /\ Called("calculateBroadcastAddress")
       \/ SubnetInfoRan

\* the network and broadcast addresses in the output of `command`
BlockIn(command, out) ==
    IF command = "network-address" THEN [network |-> out[1].v]
    ELSE IF command = "broadcast-address" THEN [broadcast |-> out[1].v]
    ELSE [network |-> InfoIn(out).network, broadcast |-> InfoIn(out).broadcast]

\* what `command` prints for address b under the options of this run
OutputFor(command, b) ==
    IF command = "network-address" THEN networkAddressAction(b, args[2], opts).out
    ELSE IF command = "broadcast-address"
    THEN broadcastAddressAction(b, args[2], opts).out
    ELSE subnetInfoAction(b, args[2], opts).out

\* bit i of x is bit i of a AND bit i of m
IsAnd(x, a, m) ==
    LET bx == Bits32(x)
        ba == Bits32(a)
        bm == Bits32(m)
    IN  \A i \in 1..32 : bx[i] = ba[i] * bm[i]

\* bit i of x is bit i of n OR NOT bit i of m
IsOrNot(x, n, m) ==
    LET bx == Bits32(x)
        bn == Bits32(n)
        bm == Bits32(m)
    IN  \A i \in 1..32 : bx[i] = IF bn[i] = 1 \/ bm[i] = 0 THEN 1 ELSE 0

\* a and b agree on every bit the mask keeps
SameBlock(a, b, m) ==
    LET ba == Bits32(a)
        bb == Bits32(b)
        bm == Bits32(m)
    IN  \A i \in 1..32 : bm[i] = 1 => ba[i] = bb[i]

\* C12: the network address shown is a AND m and the broadcast address
\* shown is (a AND m) OR (NOT m), both addresses of the 32-bit space, and
\* network-address, broadcast-address and subnet-info show the same network
\* and broadcast address for every address b of the block of a.
C12_NetworkAndBroadcast ==
    BlockRan =>
    LET a == args[1]
        m == IF cmd = "subnet-info" THEN MaskUsed ELSE args[2]
        shown == BlockIn(cmd, stdout)
    IN  /\ cmd # "broadcast-address" =>
              (isValidIPAddress(shown.network) /\ IsAnd(shown.network, a, m))
        /\ cmd # "network-address" =>
              /\ isValidIPAddress(shown.broadcast)
              /\ \E n \in {calculateNetworkAddress(a, m)} :
                    IsAnd(n, a, m) /\ IsOrNot(shown.broadcast, n, m)
        /\ \A b \in ValidAddrs \cup ClassAddrs :
              SameBlock(a, b, m) => BlockIn(cmd, OutputFor(cmd, b)) = shown

C12_Witness ==
    /\ BlockRan /\ cmd = "broadcast-address" /\ opts.plain
    /\ args = << <<0, 0, 0, 254>>, <<255, 255, 255, 0>> >>
    /\ stdout = <<Line("plain", <<0, 0, 0, 255>>, 0)>>
    /\ SameBlock(args[1], <<0, 0, 0, 1>>, args[2])
    /\ OutputFor(cmd, <<0, 0, 0, 1>>) = stdout

\* in-subnet got past its checks and reported a result
InSubnetRan == Done /\ cmd = "in-subnet" /\ Called("isIPAddressInSubnet")

\* C13: in-subnet reports true exactly when address and network agree on
\* every bit the mask keeps (network need not be a canonical network
\* address); the result is the same for every other address of the block of
\* network, is the same with address and network interchanged, and is true
\* when address = network.
C13_InSubnetIsSameBlock ==
    InSubnetRan =>
    LET address == args[1]
        network == args[2]
        mask == args[3]
    IN  /\ exitCode = 0 <=> SameBlock(address, network, mask)
        /\ \A n \in ValidAddrs \cup ClassAddrs :
              SameBlock(network, n, mask)
              => inSubnetAction(address, n, mask, opts).exit = exitCode
        /\ inSubnetAction(network, address, mask, opts).exit = exitCode
        /\ address = network => exitCode = 0

C13_Witness ==
    /\ InSubnetRan /\ exitCode = 0 /\ ~opts.plain
    /\ args = << <<0, 0, 0, 1>>, <<0, 0, 0, 254>>, <<255, 255, 255, 0>> >>
    /\ calculateNetworkAddress(args[2], args[3]) # args[2]
    /\ stdout = <<Line("belongs to subnet", <<0, 0, 0, 1>>, 0)>>

---------------------------------------------------------------------------
(* cidr-to-mask, mask-to-cidr *)

\* the number on the line of `out` labelled k
NumberIn(out, k) == out[CHOOSE i \in 1..Len(out) : out[i].k = k].n

PlainOptions == [NoOptions EXCEPT !.plain = TRUE]

\* the text is the plain base-10 notation of a number in lo..hi
IsDecimalOf(t, lo, hi) == \E n \in lo..hi : t = DecimalDigits(<<0, n>>)

\* C14: for every p in [0,32] cidr-to-mask prints a mask that validate-mask
\* accepts and for which mask-to-cidr prints p; for every valid mask m,
\* cidr-to-mask of what mask-to-cidr prints is m; subnet-info with --cidr p
\* prints what it prints with the positional mask cidr-to-mask prints for p.
C14_MaskPrefixBijection ==
    /\ (Done /\ cmd = "cidr-to-mask" /\ IsDecimalOf(text, 0, 32)) =>
          /\ exitCode = 0
          /\ LET m == ValueIn(stdout, IF opts.plain THEN "plain" ELSE "Subnet Mask")
                 prefix == ParseInt(text).val
             IN  /\ validateMaskAction(m, PlainOptions).exit = 0
                 /\ PrefixLength(m) = prefix
                 /\ maskToCidrAction(m, PlainOptions).out
                       = <<Line("plain", <<>>, prefix)>>
    /\ (Done /\ cmd = "mask-to-cidr" /\ Called("subnetMaskToCIDR")) =>
          /\ exitCode = 0
          /\ LET c == NumberIn(stdout, IF opts.plain THEN "plain" ELSE "CIDR Prefix")
             IN  /\ c \in 0..32
                 /\ cidrToMaskAction(DecimalDigits(<<0, c>>), PlainOptions).out
                       = <<Line("plain", args[1], 0)>>
    /\ (SubnetInfoRan /\ opts.cidr # <<>>) =>
          LET printed == cidrToMaskAction(opts.cidr, PlainOptions).out[1].v
          IN  subnetInfoAction(args[1], printed, [opts EXCEPT !.cidr = <<>>]).out
                = stdout

C14_Witness ==
    /\ Done /\ cmd = "mask-to-cidr" /\ ~opts.plain /\ exitCode = 0
    /\ args = << <<255, 240, 0, 0>> >>
    /\ NumberIn(stdout, "CIDR Prefix") = 12
    /\ cidrToMaskAction(<<"1", "2">>, PlainOptions).out
          = <<Line("plain", <<255, 240, 0, 0>>, 0)>>

\* the 32 bits are p ones followed by 32 - p zeros, for some p in 0..32
IsContiguous(m) ==
    LET b == Bits32(m)
    IN  \E n \in 0..32 : \A i \in 1..32 : b[i] = IF i <= n THEN 1 ELSE 0

\* the position of the mask among the arguments of a core computation
MaskPosition(fn) ==
    IF fn = "subnetMaskToCIDR" THEN 1
    ELSE IF fn = "isIPAddressInSubnet" THEN 3
    ELSE 2

MaskComputations ==
    {"calculateNetworkAddress", "calculateBroadcastAddress", "isIPAddressInSubnet",
     "getSubnetInfo", "subnetMaskToCIDR"}

\* C15: among well-formed dotted texts validate-mask exits 0 exactly for
\* the 33 masks of p ones followed by zeros (all-ones and all-zeros
\* included), and network-address, broadcast-address, in-subnet, subnet-info
\* and mask-to-cidr run their core computation only with such a mask.
C15_MaskIsContiguous ==
    /\ (Done /\ cmd = "validate-mask" /\ isValidIPAddress(args[1]))
          => (exitCode = 0 <=> IsContiguous(args[1]))
    /\ Done =>
          \A i \in 1..Len(calls) :
              calls[i].fn \in MaskComputations
              => IsContiguous(calls[i].args[MaskPosition(calls[i].fn)])

C15_Witness ==
    /\ Done /\ cmd = "validate-mask" /\ opts.plain
    /\ args = << <<255, 0, 255, 0>> >>
    /\ exitCode = 1 /\ stdout = <<Line("invalid", <<>>, 0)>>

---------------------------------------------------------------------------
(* classify *)

\* the RFC 1918 blocks, as first address and mask
Rfc1918Blocks ==
    { << <<10, 0, 0, 0>>, <<255, 0, 0, 0>> >>,
      << <<172, 16, 0, 0>>, <<255, 240, 0, 0>> >>,
      << <<192, 168, 0, 0>>, <<255, 255, 0, 0>> >> }

BlocksHolding(a) == { b \in Rfc1918Blocks : SameBlock(a, b[1], b[2]) }

ClassifyRan ==
    Done /\ cmd = "classify" /\ isValidIPAddress(args[1]) /\ exitCode = 0

\* the lines of `out` labelled k
LinesLabelled(out, k) == SelectSeq(out, LAMBDA l : l.k = k)

\* the result of the call of fn in this run
ResultOf(fn) == calls[CHOOSE i \in 1..Len(calls) : calls[i].fn = fn].res

\* C16: for a valid address isPublic differs from isPrivate, and the address
\* is reported private exactly when it lies in 10.0.0.0/8, 172.16.0.0/12
\* or 192.168.0.0/16; classify prints 'Private IP' ('private' in plain
\* mode) exactly when it prints the 'RFC 1918' line (formatted mode), and
\* with that line exactly one 'Range:' line, of the block holding the address.
C16_ClassifyPrivateBlocks ==
    ClassifyRan =>
    LET a == args[1]
        private == BlocksHolding(a) # {}
    IN  /\ Cardinality(BlocksHolding(a)) <= 1
        /\ ResultOf("isPublicIP") = BoolStr(~private)
        /\ opts.plain =>
              stdout = <<Line(IF private THEN "private" ELSE "public", <<>>, 0)>>
        /\ ~opts.plain =>
              LET typePrivate == LinesLabelled(stdout, "Type: Private IP")
                  typePublic == LinesLabelled(stdout, "Type: Public IP")
                  standard == LinesLabelled(stdout, "Standard: RFC 1918")
                  range == LinesLabelled(stdout, "Range")
              IN  /\ ResultOf("isPrivateIP") # ResultOf("isPublicIP")
                  /\ Len(typePrivate) + Len(typePublic) = 1
                  /\ Len(typePrivate) = 1 <=> private
                  /\ Len(standard) = Len(typePrivate)
                  /\ Len(range) = Len(standard)
                  /\ \A i \in 1..Len(range) :
                        \E b \in BlocksHolding(a) : range[i].v = b[1]

C16_Witness ==
    /\ ClassifyRan /\ ~opts.plain
    /\ args = << <<172, 31, 255, 255>> >>
    /\ Len(LinesLabelled(stdout, "Type: Private IP")) = 1
    /\ LinesLabelled(stdout, "Range") = <<Line("Range", <<172, 16, 0, 0>>, 0)>>

---------------------------------------------------------------------------
(* to-binary, from-binary, to-integer, from-integer *)

\* the text on the line of `out` labelled k
TextIn(out, k) == out[CHOOSE i \in 1..Len(out) : out[i].k = k].t

ToBinaryRan == Done /\ cmd = "to-binary" /\ Called("ipToBinary") /\ exitCode = 0

ToIntegerRan == Done /\ cmd = "to-integer" /\ Called("ipToInteger") /\ exitCode = 0

\* C17: for a valid address a, from-binary of what to-binary prints (with
\* or without --spaces) prints a, and from-integer of the decimal number
\* to-integer prints, a number in [0, 4294967295], prints a; so
\* fromBinary(toBinary(a)) = a and fromInteger(toInteger(a)) = a.
C17_RepresentationsRoundTrip ==
    /\ ToBinaryRan =>
          LET printed == TextIn(stdout, IF opts.plain THEN "plain" ELSE "Binary")
          IN  /\ fromBinaryAction(printed, PlainOptions).out
                    = <<Line("plain", args[1], 0)>>
              /\ fromBinaryAction(printed, PlainOptions).exit = 0
              /\ binaryToIP(ipToBinary(args[1])) = args[1]
    /\ (ToIntegerRan /\ ~(opts.plain /\ opts.hex)) =>
          LET printed == TextIn(stdout, IF opts.plain THEN "plain" ELSE "Integer")
              n == ParseIntU32(printed)
          IN  /\ ~n.nan /\ ~n.neg /\ ~n.over
              /\ DecimalDigits(n.val) = printed
              /\ fromIntegerAction(printed, PlainOptions).out
                    = <<Line("plain", args[1], 0)>>
              /\ fromIntegerAction(printed, PlainOptions).exit = 0
              /\ integerToIP(ipToInteger(args[1])) = args[1]

C17_Witness ==
    /\ ToBinaryRan /\ opts.plain /\ opts.spaces
    /\ args = << <<9, 255, 255, 254>> >>
    /\ stdout = <<TextLine("plain", DotsToSpaces(ipToBinary(<<9, 255, 255, 254>>)))>>
    /\ stdout[1].t[9] = " "
    /\ fromBinaryAction(stdout[1].t, PlainOptions).out
          = <<Line("plain", <<9, 255, 255, 254>>, 0)>>

---------------------------------------------------------------------------
(* compare *)

CompareRan == Done /\ cmd = "compare" /\ Called("compareIPAddresses") /\ exitCode = 0

\* the sign of toInteger(a) - toInteger(b): decided by the first octet in
\* which a and b differ, octets compared as numbers
SignOf(a, b) ==
    LET d == {i \in 1..4 : a[i] # b[i]}
    IN  IF d = {} THEN 0
        ELSE LET i == CHOOSE k \in d : \A l \in d : k <= l
             IN  IF a[i] < b[i] THEN 0 - 1 ELSE 1

ResultLabels == {"Result: <", "Result: >", "Result: ="}

\* the results compare printed, as numbers
ResultsIn(out) ==
    IF out[1].k = "plain" THEN <<out[1].n>>
    ELSE LET r == SelectSeq(out, LAMBDA l : l.k \in ResultLabels)
         IN  [i \in 1..Len(r) |-> IF r[i].k = "Result: <" THEN 0 - 1
                                  ELSE IF r[i].k = "Result: >" THEN 1 ELSE 0]

\* what compare prints for a and b under the options of this run
Compared(a, b) == ResultsIn(compareAction(a, b, opts).out)[1]

\* C18: compare prints exactly one result, in {-1, 0, 1} ('<', '=', '>'),
\* the sign of toInteger(a) - toInteger(b); the order is total: the result
\* for (b, a) is the opposite, it is 0 exactly for a = b, and it is
\* transitive.
C18_CompareIsNumericOrder ==
    CompareRan =>
    LET a == args[1]
        b == args[2]
        r == ResultsIn(stdout)
    IN  /\ Len(r) = 1
        /\ r[1] \in {0 - 1, 0, 1}
        /\ r[1] = SignOf(a, b)
        /\ Compared(b, a) = 0 - r[1]
        /\ r[1] = 0 <=> a = b
        /\ \A c \in ValidAddrs :
              (r[1] <= 0 /\ Compared(b, c) <= 0) => Compared(a, c) <= 0

C18_Witness ==
    /\ CompareRan /\ ~opts.plain
    /\ args = << <<9, 255, 255, 254>>, <<10, 0, 0, 0>> >>
    /\ ResultsIn(stdout) = <<0 - 1>>
    /\ Len(LinesLabelled(stdout, "Result: <")) = 1

---------------------------------------------------------------------------
(* numeric arguments *)

\* the text is digits only
IsDigits(t) == t # <<>> /\ \A i \in 1..Len(t) : IsDigit(t[i])

\* the text is the plain base-10 notation of an integer: digits, after an
\* optional sign
IsPlainNumber(t) ==
    IsDigits(t) \/ (t # <<>> /\ Head(t) \in {"-", "+"} /\ IsDigits(Tail(t)))

\* ... of an integer in [0, 4294967295]
IsPlainInteger32(t) ==
    /\ IsPlainNumber(t)
    /\ LET n == ParseIntU32(t) IN ~n.over /\ (n.neg => n.val = U32Zero)

\* ... of an integer in [0, 32]
IsPlainPrefix(t) ==
    IsPlainNumber(t) /\ ParseInt(t).val >= 0 /\ ParseInt(t).val <= 32

\* C19: from-integer converts its argument only if it is the plain base-10
\* notation of an integer in [0, 4294967295], and cidr-to-mask and
\* subnet-info --cidr convert a prefix only if it is the plain base-10
\* notation of an integer in [0, 32]; for any other text the run ends with
\* exit code 1 and calls neither integerToIP nor cidrToSubnetMask.
C19_NoSilentCoercion ==
    /\ (Done /\ cmd = "from-integer" /\ ~IsPlainInteger32(text))
          => (exitCode = 1 /\ ~Called("integerToIP"))
    /\ (Done /\ cmd = "cidr-to-mask" /\ ~IsPlainPrefix(text))
          => (exitCode = 1 /\ ~Called("cidrToSubnetMask"))
    /\ (Done /\ cmd = "subnet-info" /\ opts.cidr # <<>> /\ ~IsPlainPrefix(opts.cidr))
          => (exitCode = 1 /\ ~Called("cidrToSubnetMask"))

---------------------------------------------------------------------------
(* validate-batch *)

BatchRan == Done /\ cmd = "validate-batch"

\* the addresses shown on the lines of `out`, in order
AddressesOn(out) == [i \in 1..Len(out) |-> out[i].v]

\* C20: validate-batch over a non-empty list: validCount + invalidCount is
\* the number of arguments; the exit code is 0 exactly when every argument
\* passes isValidIPAddress, else 1; with --plain stdout holds exactly the
\* valid arguments, in input order, duplicates kept; with --quiet and
\* without --plain only the invalid arguments are listed before the summary.
C20_BatchCountsAndListing ==
    BatchRan =>
    LET valids == SelectSeq(args, isValidIPAddress)
        invalids == SelectSeq(args, LAMBDA a : ~isValidIPAddress(a))
    IN  /\ Len(args) >= 1
        /\ exitCode = IF Len(invalids) = 0 THEN 0 ELSE 1
        /\ opts.plain => AddressesOn(stdout) = valids
        /\ ~opts.plain =>
              LET summary == stdout[Len(stdout)]
                  listed == SubSeq(stdout, 1, Len(stdout) - 1)
              IN  /\ summary.k = "Summary"
                  /\ summary.v = <<Len(valids), Len(invalids), Len(args)>>
                  /\ summary.v[1] + summary.v[2] = Len(args)
                  /\ opts.quiet =>
                        /\ AddressesOn(listed) = invalids
                        /\ \A i \in 1..Len(listed) : listed[i].k = "bad"
                  /\ ~opts.quiet =>
                        /\ AddressesOn(SelectSeq(listed, LAMBDA l : l.k # "")) = args
                        /\ \A i \in 1..Len(args) :
                              listed[i].k = IF isValidIPAddress(args[i]) THEN "ok"
                                            ELSE "bad"

C20_Witness ==
    /\ BatchRan /\ opts.plain
    /\ args = << <<10, 1, 2, 3>>, <<1, 2, 3>>, <<10, 1, 2, 3>> >>
    /\ stdout = PlainLines(<< <<10, 1, 2, 3>>, <<10, 1, 2, 3>> >>)
    /\ exitCode = 1

---------------------------------------------------------------------------
(* C21: the current operation commands against the earlier version *)

OperationCommands == {"classify", "next", "previous", "range", "compare"}

\* a run of one of the five commands without --plain
FormattedOperationRan == Done /\ cmd \in OperationCommands /\ ~opts.plain

\* what the earlier version does on the arguments and options of this run
EarlierRun ==
    IF cmd = "classify" THEN classifyActionEarlier(args[1])
    ELSE IF cmd = "next" THEN nextActionEarlier(args[1], opts)
    ELSE IF cmd = "previous" THEN previousActionEarlier(args[1], opts)
    ELSE IF cmd = "range" THEN rangeActionEarlier(args[1], args[2], opts)
    ELSE compareActionEarlier(args[1], args[2])

\* the steps that returned before the run ended
StepsDone ==
    Cardinality({i \in 1..Len(calls) :
                    /\ calls[i].fn \in {"getNextIPAddress", "getPreviousIPAddress"}
                    /\ calls[i].res = "ok"})

\* what the earlier version has printed when step StepsDone + 1 throws
PrintedBeforeThrow ==
    IF cmd = "next"
    THEN <<Line("Current", args[1], 0)>>
         \o [i \in 1..StepsDone |-> Line("Next", AddrAt(args[1], i), i)]
    ELSE [i \in 1..StepsDone |->
             Line("Prev", AddrBelow(args[1], i), StepCount - i + 1)]

---------------------------------------------------------------------------
(* C22: the labels of the previous and next listings *)

\* the addresses on the lines of `out` labelled `label` i
LabelledAddrs(out, label, i) ==
    {out[j].v : j \in {x \in 1..Len(out) : out[x].k = label /\ out[x].n = i}}

\* C22: with count N in 1..100, the line labelled 'Prev i' of the previous
\* command shows the address of value toInteger(address) - i for every i in
\* 1..N, as 'Next i' of the next command shows toInteger(address) + i; in
\* plain mode the k-th line of previous is the address of value
\* toInteger(address) - k.
C22_LabelsShowOffsets ==
    /\ (StepsRan("previous") /\ StaysAboveBottom(args[1], StepCount)) =>
          IF opts.plain
          THEN /\ Len(stdout) = StepCount
               /\ \A k \in 1..StepCount : stdout[k].v = AddrBelow(args[1], k)
          ELSE \A i \in 1..StepCount :
                  LabelledAddrs(stdout, "Prev", i) = {AddrBelow(args[1], i)}
    /\ (StepsRan("next") /\ StaysBelowTop(args[1], StepCount) /\ ~opts.plain) =>
          \A i \in 1..StepCount :
              LabelledAddrs(stdout, "Next", i) = {AddrAt(args[1], i)}

---------------------------------------------------------------------------
(* C23: the formatted listing of the range command under --limit *)

\* the range command listed addresses: no --plain, no --count
ListingRan == RangeRan /\ ~opts.plain /\ ~opts.countFlag

\* toInteger(end) - toInteger(start) + 1
RangeLength ==
    CHOOSE n \in 1..MaxRangeLen : AddrAt(args[1], n - 1) = args[2]

\* min(n, limit), and no fewer than none
ListedUnder(n, limit) ==
    IF limit < 0 THEN 0 ELSE IF limit < n THEN limit ELSE n

MoreLines(out) == SelectSeq(out, LAMBDA l : l.k = "more addresses")

\* C23: in the formatted listing of the range command, for every --limit
\* argument (0, negative and non-numeric ones included) and every valid
\* start <= end with range length n, min(n, limit) addresses are listed,
\* they are the first ones of the range from start on, and when the listing
\* is truncated the reported number of 'more addresses' plus the number of
\* listed addresses is n.  A non-numeric limit has no minimum to compare
\* with and is held to the other two parts only.
C23_LimitListsMinimum ==
    ListingRan =>
    LET limit == ParseInt(opts.limit)
        listed == AddressLines(stdout)
        more == MoreLines(stdout)
    IN  /\ ~limit.nan => Len(listed) = ListedUnder(RangeLength, limit.val)
        /\ Len(listed) <= RangeLength
        /\ \A i \in 1..Len(listed) : listed[i].v = AddrAt(args[1], i - 1)
        /\ ListingTruncated =>
              /\ Len(more) = 1
              /\ more[1].n + Len(listed) = RangeLength

---------------------------------------------------------------------------
(* C24: findPackageJson *)

FindEnded == pc \in {"returned", "threw"}

\* the directories from startDir up to and including the root that hold a
\* package.json
HoldingDirs == {d \in UpFrom(startDir) : join(d, "package.json") \in files}

\* the one of them closest to startDir
ClosestHolding == CHOOSE d \in HoldingDirs : \A e \in HoldingDirs : Len(e) <= Len(d)

\* every call of findPackageJson returns or throws
FindTerminates == <>FindEnded

\* C24: findPackageJson(startDir) throws 'package.json not found' only if no
\* directory from startDir up to and including the filesystem root contains
\* a package.json; otherwise it returns the package.json path of the closest
\* such directory, startDir itself first.
C24_FindsClosestPackageJson ==
    /\ pc = "threw" => HoldingDirs = {}
    /\ pc = "returned" =>
          /\ HoldingDirs # {}
          /\ packagePath = join(ClosestHolding, "package.json")

====
